---- MODULE Spec2Model ----
(***************************************************************************)
(* Model of the review utilities of us2cursor (lib/review.js):             *)
(*   extractChangedLines, parseReviewIssues, extractPendingComments.       *)
(* Texts are sequences of one-character strings; "\n" is the line break.   *)
(* A JavaScript value that may be null/undefined is a sequence of length   *)
(* 0 (absent) or 1 (the value).                                            *)
(***************************************************************************)
EXTENDS Integers, Sequences, FiniteSets, TLC

VARIABLES
    pc,           \* position of the call under study: "<operation>_call" or "<operation>_done"
    oldContent,   \* extractChangedLines: previous content, Null or Some(text)
    newContent,   \* extractChangedLines: new content (text)
    maxContext,   \* extractChangedLines: context lines around a change
    diffResult,   \* extractChangedLines: the returned string
    reviewText,   \* parseReviewIssues: the review text
    issues,       \* parseReviewIssues: the returned array of issues
    threads,      \* extractPendingComments: the PR threads
    comments,     \* extractPendingComments: the returned array of comments
    workItem,     \* extractFields / extractUS: the raw work item
    extractor,    \* extractFields / extractUS: the implementation called
    fieldsOutcome,\* extractFields / extractUS: what the call returned or threw
    validator,    \* validateBackendOutput / validateFrontendOutput: the function called
    specText,     \* validateBackendOutput / validateFrontendOutput: the text
    validation,   \* validateBackendOutput / validateFrontendOutput: the returned record
    cleaner,      \* cleanOutputBackend / cleanOutputFrontend: the function called
    rawText,      \* cleanOutputBackend / cleanOutputFrontend: the raw LLM output
    cleanResult,  \* cleanOutputBackend / cleanOutputFrontend: the returned text
    compiler,     \* compileToSpec: the command, "us2b" or "us2f"
    retryCount,   \* compileToSpec: the retryCount argument of the running invocation
    llmCalls,     \* compileToSpec: LLM calls issued so far
    cleaned,      \* compileToSpec: the cleaned outputs of the LLM replies so far
    validations,  \* compileToSpec: the validation records of those outputs
    compileReturn,\* compileToSpec: the returned {result, validation}, Null before
    codeFiles,    \* extractDiffContent: the codeFiles argument
    fileIndex,    \* extractDiffContent: 1-based position of c in the sliced list
    fileNewContent,\* extractDiffContent: newContent of the current file, Null before
    diffContent,  \* extractDiffContent: the accumulated diffContent
    addedLines,   \* extractDiffContent: the accumulated addedLines
    pendingCalls, \* network: the requests sent and not settled yet
    issuedCalls,  \* network: every request sent so far, in sending order
    adapter,      \* external call: the function that performs it
    timerArmed,   \* fetchWithTimeout: the abort timer is pending
    response,     \* external call: the status of the Response, Null before the headers
    callFailure,  \* external call: what went wrong with it, "none" so far
    callOutcome,  \* external call: what the adapter returned or threw, Null before
    exitCode,     \* command: the status process.exit was called with, Null before
    policyThreads,\* both extractPendingComments: the threads argument
    strictComments,\* lib extractPendingComments: the returned list, Null before
    permissiveComments,\* prfix.js extractPendingComments: the returned list, Null before
    command,      \* main: the command that runs, "none" before
    idArg,        \* main: process.argv[2], Null when absent
    typeArg,      \* main (us2task): process.argv[3], Null when absent
    cliId,        \* main: the value validateNumericId returned, Null before
    cliExit,      \* main: the status given to process.exit, Null while running
    requestedId,  \* main: the id given to the first network call, Null before
    relationGraph,\* findParentUserStory: the work items the tracker serves, by id
    parentWiArg,  \* findParentUserStory: the id of the wi argument of the running invocation, 0 before
    parentFetch,  \* findParentUserStory: the id of the getWorkItemWithRelations call in flight, Null if none
    parentReturn, \* findParentUserStory: Some of the id of the returned work item, Some(0) for null, Null before
    confirmCommand,\* main (prreview, us2task): the command at its confirmation prompt, "none" before
    typeLabel,    \* main (us2task): 'BE' or 'FE'
    answers,      \* main: the answers askQuestion gave to the confirmation prompt so far
    taskTitle,    \* main (us2task): title
    trackerWrites,\* main: the calls of publishReview / createTask issued so far
    confirmExit,  \* main: the status given to process.exit, Null if none
    publishIssues,\* publishReview: issues, the value of parseReviewIssues(reviewContent)
    publishChanges,\* publishReview: changes, the item?.path of each (Null when absent)
    issueIndex,   \* publishReview: the position of the for loop in issues, 0 before the loop
    postLog,      \* publishReview: the POSTs issued so far, in order, with their outcome
    lineComments, \* publishReview: result.lineComments
    publishReturn \* publishReview: Some of the returned result, Null before

vars ==
    <<pc, oldContent, newContent, maxContext, diffResult, reviewText, issues,
      threads, comments,
      workItem, extractor, fieldsOutcome,
      validator, specText, validation,
      cleaner, rawText, cleanResult,
      compiler, retryCount, llmCalls, cleaned, validations, compileReturn,
      codeFiles, fileIndex, fileNewContent, diffContent, addedLines, pendingCalls, issuedCalls,
      adapter, timerArmed, response, callFailure, callOutcome, exitCode,
      policyThreads, strictComments, permissiveComments,
      command, idArg, typeArg, cliId, cliExit, requestedId,
      relationGraph, parentWiArg, parentFetch, parentReturn,
      confirmCommand, typeLabel, answers, taskTitle, trackerWrites, confirmExit,
      publishIssues, publishChanges, issueIndex, postLog, lineComments, publishReturn>>

(***************************************************************************)
(* JavaScript values and string primitives                                 *)
(***************************************************************************)
Null == <<>>

Some(v) == <<v>>

(***************************************************************************)
(* The variables of each operation, their values while another operation   *)
(* is under study, and the frame of an action: the variables of every      *)
(* other operation are left alone.                                         *)
(***************************************************************************)
diffVars == <<oldContent, newContent, maxContext, diffResult>>

parseVars == <<reviewText, issues>>

commentVars == <<threads, comments>>

fieldVars == <<workItem, extractor, fieldsOutcome>>

validateVars == <<validator, specText, validation>>

cleanVars == <<cleaner, rawText, cleanResult>>

compileVars == <<compiler, retryCount, llmCalls, cleaned, validations, compileReturn>>

filesVars == <<codeFiles, fileIndex, fileNewContent, diffContent, addedLines, pendingCalls, issuedCalls>>

callVars == <<adapter, timerArmed, response, callFailure, callOutcome, exitCode>>

policyVars == <<policyThreads, strictComments, permissiveComments>>

cliVars == <<command, idArg, typeArg, cliId, cliExit, requestedId>>

parentVars == <<relationGraph, parentWiArg, parentFetch, parentReturn>>

confirmVars == <<confirmCommand, typeLabel, answers, taskTitle, trackerWrites, confirmExit>>

publishVars == <<publishIssues, publishChanges, issueIndex, postLog, lineComments, publishReturn>>

DiffIdle ==
    /\ oldContent = Null
    /\ newContent = <<>>
    /\ maxContext = 0
    /\ diffResult = <<>>

ParseIdle == reviewText = <<>> /\ issues = <<>>

CommentsIdle == threads = <<>> /\ comments = <<>>

FieldsIdle ==
    /\ workItem = <<>>
    /\ extractor = "none"
    /\ fieldsOutcome = <<>>

ValidateIdle ==
    /\ validator = "none"
    /\ specText = <<>>
    /\ validation = <<>>

CleanIdle ==
    /\ cleaner = "none"
    /\ rawText = <<>>
    /\ cleanResult = <<>>

CompileIdle ==
    /\ compiler = "none"
    /\ retryCount = 0
    /\ llmCalls = 0
    /\ cleaned = <<>>
    /\ validations = <<>>
    /\ compileReturn = <<>>

FilesIdle ==
    /\ codeFiles = <<>>
    /\ fileIndex = 0
    /\ fileNewContent = <<>>
    /\ diffContent = <<>>
    /\ addedLines = 0
    /\ pendingCalls = {}
    /\ issuedCalls = <<>>

CallsIdle ==
    /\ adapter = "none"
    /\ timerArmed = FALSE
    /\ response = <<>>
    /\ callFailure = "none"
    /\ callOutcome = <<>>
    /\ exitCode = <<>>

PoliciesIdle ==
    /\ policyThreads = <<>>
    /\ strictComments = <<>>
    /\ permissiveComments = <<>>

CliIdle ==
    /\ command = "none"
    /\ idArg = <<>>
    /\ typeArg = <<>>
    /\ cliId = <<>>
    /\ cliExit = <<>>
    /\ requestedId = <<>>

ParentIdle ==
    /\ relationGraph = <<>>
    /\ parentWiArg = 0
    /\ parentFetch = <<>>
    /\ parentReturn = <<>>

ConfirmIdle ==
    /\ confirmCommand = "none"
    /\ typeLabel = <<>>
    /\ answers = <<>>
    /\ taskTitle = <<>>
    /\ trackerWrites = 0
    /\ confirmExit = <<>>

PublishIdle ==
    /\ publishIssues = <<>>
    /\ publishChanges = <<>>
    /\ issueIndex = 0
    /\ postLog = <<>>
    /\ lineComments = <<>>
    /\ publishReturn = <<>>

IdleExcept(op) ==
    /\ IF op = "diff" THEN TRUE ELSE DiffIdle
    /\ IF op = "parse" THEN TRUE ELSE ParseIdle
    /\ IF op = "comments" THEN TRUE ELSE CommentsIdle
    /\ IF op = "fields" THEN TRUE ELSE FieldsIdle
    /\ IF op = "validate" THEN TRUE ELSE ValidateIdle
    /\ IF op = "clean" THEN TRUE ELSE CleanIdle
    /\ IF op = "compile" THEN TRUE ELSE CompileIdle
    /\ IF op = "files" THEN TRUE ELSE FilesIdle
    /\ IF op = "calls" THEN TRUE ELSE CallsIdle
    /\ IF op = "policies" THEN TRUE ELSE PoliciesIdle
    /\ IF op = "cli" THEN TRUE ELSE CliIdle
    /\ IF op = "parent" THEN TRUE ELSE ParentIdle
    /\ IF op = "confirm" THEN TRUE ELSE ConfirmIdle
    /\ IF op = "publish" THEN TRUE ELSE PublishIdle

UnchangedExcept(op) ==
    /\ IF op = "diff" THEN TRUE ELSE UNCHANGED diffVars
    /\ IF op = "parse" THEN TRUE ELSE UNCHANGED parseVars
    /\ IF op = "comments" THEN TRUE ELSE UNCHANGED commentVars
    /\ IF op = "fields" THEN TRUE ELSE UNCHANGED fieldVars
    /\ IF op = "validate" THEN TRUE ELSE UNCHANGED validateVars
    /\ IF op = "clean" THEN TRUE ELSE UNCHANGED cleanVars
    /\ IF op = "compile" THEN TRUE ELSE UNCHANGED compileVars
    /\ IF op = "files" THEN TRUE ELSE UNCHANGED filesVars
    /\ IF op = "calls" THEN TRUE ELSE UNCHANGED callVars
    /\ IF op = "policies" THEN TRUE ELSE UNCHANGED policyVars
    /\ IF op = "cli" THEN TRUE ELSE UNCHANGED cliVars
    /\ IF op = "parent" THEN TRUE ELSE UNCHANGED parentVars
    /\ IF op = "confirm" THEN TRUE ELSE UNCHANGED confirmVars
    /\ IF op = "publish" THEN TRUE ELSE UNCHANGED publishVars

NL == "\n"

Min(a, b) == IF a < b THEN a ELSE b

Max(a, b) == IF a > b THEN a ELSE b

\* Array.prototype.slice(0, n)
slice(arr, n) == SubSeq(arr, 1, Min(n, Len(arr)))

\* String.prototype.split('\n'): the pieces between line breaks, always at
\* least one piece.
split(s) ==
    LET idx == [i \in 1..Len(s) |-> i]
        IsBreak(i) == s[i] = NL
        nl == SelectSeq(idx, IsBreak)
        cut == <<0>> \o nl \o <<Len(s) + 1>>
    IN [k \in 1..(Len(nl) + 1) |-> SubSeq(s, cut[k] + 1, cut[k + 1] - 1)]

\* Array.prototype.join('\n'), computed by halves to keep the evaluation shallow
RECURSIVE join(_)
join(arr) ==
    IF Len(arr) = 0 THEN <<>>
    ELSE IF Len(arr) = 1 THEN arr[1]
    ELSE LET h == Len(arr) \div 2
         IN join(SubSeq(arr, 1, h)) \o <<NL>> \o join(SubSeq(arr, h + 1, Len(arr)))

Digits == <<"0", "1", "2", "3", "4", "5", "6", "7", "8", "9">>

\* Number-to-string conversion of a template literal, for n >= 0
RECURSIVE numberToString(_)
numberToString(n) ==
    IF n < 10 THEN <<Digits[n + 1]>>
    ELSE Append(numberToString(n \div 10), Digits[(n % 10) + 1])

(***************************************************************************)
(* extractChangedLines                                                     *)
(***************************************************************************)
MAX_LINES_NEW_FILE == 150

MAX_TOTAL_LINES == 100

DEFAULT_MAX_CONTEXT == 3

\* !oldContent: null and the empty string are both falsy
isFalsyString(s) == s = Null \/ s[1] = <<>>

\* lines[i] for a 0-based i: Some(line), or Null (undefined) beyond the array
lineAt(lines, i) == IF i >= 0 /\ i < Len(lines) THEN Some(lines[i + 1]) ELSE Null

\* oldLines[i] !== newLines[i]
lineDiffers(oldLines, newLines, i) == lineAt(oldLines, i) # lineAt(newLines, i)

\* `+${i + 1}|${l}` and `${prefix}${lineNum + 1}|${lineContent}`
renderLine(prefix, lineNum, lineContent) ==
    <<prefix>> \o numberToString(lineNum + 1) \o <<"|">> \o lineContent

\* Mutant of newFileLines: the cap on a new file is forgotten
newFileLines_NoCap(content) == split(content)

\* New file branch: newContent.split('\n').slice(0, 150)
newFileLines(content) == slice(split(content), MAX_LINES_NEW_FILE)

newFileDiff(content) ==
    LET lines == newFileLines(content)
    IN join([i \in 1..Len(lines) |-> renderLine("+", i - 1, lines[i])])

\* The context window added for a changed index i
contextWindow(newLines, i, K) ==
    Max(0, i - K)..Min(Len(newLines) - 1, i + K)

\* The set changedLineNumbers after the first loop
changedLineNumbers(oldLines, newLines, K) ==
    LET changed == {i \in 0..(Max(Len(oldLines), Len(newLines)) - 1) :
                        lineDiffers(oldLines, newLines, i)}
    IN changed \cup UNION {contextWindow(newLines, i, K) : i \in changed}

\* Array.from(set).sort((a, b) => a - b), for a set of indices below n
sortedLines(S, n) ==
    LET all == [i \in 1..n |-> i - 1]
        Marked(i) == i \in S
    IN SelectSeq(all, Marked)

\* Mutant of linePrefix: an index present in only one text is not marked
linePrefix_BothPresent(oldLines, newLines, lineNum) ==
    IF /\ lineNum < Len(oldLines)
       /\ lineNum < Len(newLines)
       /\ lineDiffers(oldLines, newLines, lineNum)
    THEN "+" ELSE " "

\* const prefix = isNew ? '+' : ' '
linePrefix(oldLines, newLines, lineNum) ==
    IF lineDiffers(oldLines, newLines, lineNum) THEN "+" ELSE " "

\* const lineContent = newLines[lineNum] || ''
lineContentAt(newLines, lineNum) ==
    IF lineAt(newLines, lineNum) = Null THEN <<>> ELSE newLines[lineNum + 1]

\* Mutant of needsSeparator: the gap between the indices is not tested
needsSeparator_NoGapTest(lineNum, lastLine, nonEmpty) == nonEmpty

\* if (lineNum > lastLine + 1 && changes.length > 0) changes.push('...'),
\* with nonEmpty standing for changes.length > 0
needsSeparator(lineNum, lastLine, nonEmpty) ==
    lineNum > lastLine + 1 /\ nonEmpty

\* One iteration of the rendering loop for lineNum, entered with the loop
\* state (changes.length > 0, lastLine): the entries it pushes
renderStep(oldLines, newLines, lineNum, lastLine, nonEmpty) ==
    (IF needsSeparator(lineNum, lastLine, nonEmpty)
     THEN <<<<".", ".", ".">>>> ELSE <<>>)
    \o <<renderLine(linePrefix(oldLines, newLines, lineNum), lineNum,
                     lineContentAt(newLines, lineNum))>>

\* The rendering loop over sorted[lo..hi], entered with the loop state
\* (changes.length > 0, lastLine): the entries pushed on changes.  Every
\* iteration pushes a line and sets lastLine = lineNum, which is the state
\* handed from the first half of the range to the second.
RECURSIVE renderLoop(_, _, _, _, _, _, _)
renderLoop(sorted, lo, hi, oldLines, newLines, nonEmpty, lastLine) ==
    IF lo > hi THEN <<>>
    ELSE IF lo = hi
    THEN renderStep(oldLines, newLines, sorted[lo], lastLine, nonEmpty)
    ELSE LET mid == (lo + hi) \div 2
         IN renderLoop(sorted, lo, mid, oldLines, newLines, nonEmpty, lastLine)
            \o renderLoop(sorted, mid + 1, hi, oldLines, newLines, TRUE,
                          sorted[mid])

\* changes.slice(0, 100)
truncateChanges(changes) == slice(changes, MAX_TOTAL_LINES)

pairedDiff(old, new, K) ==
    LET oldLines == split(old)
        newLines == split(new)
        n == Max(Len(oldLines), Len(newLines))
        sorted == sortedLines(changedLineNumbers(oldLines, newLines, K), n)
        changes == renderLoop(sorted, 1, Len(sorted), oldLines, newLines, FALSE, -10)
    IN join(truncateChanges(changes))

extractChangedLines(old, new, K) ==
    IF isFalsyString(old) THEN newFileDiff(new) ELSE pairedDiff(old[1], new, K)

(***************************************************************************)
(* parseReviewIssues                                                       *)
(* The severity markers of the regular expression (the red, yellow and     *)
(* blue circle emoji) are the one-symbol strings "<red>", "<yellow>" and   *)
(* "<blue>".                                                               *)
(***************************************************************************)
\* \s
WhitespaceChars == {" ", NL, "\t", "\r"}

\* \w
WordChars ==
    {"A", "B", "C", "D", "E", "F", "G", "H", "I", "J", "K", "L", "M", "N",
      "O", "P", "Q", "R", "S", "T", "U", "V", "W", "X", "Y", "Z", "a", "b",
      "c", "d", "e", "f", "g", "h", "i", "j", "k", "l", "m", "n", "o", "p",
      "q", "r", "s", "t", "u", "v", "w", "x", "y", "z", "0", "1", "2", "3",
      "4", "5", "6", "7", "8", "9", "_"}

\* Membership of a character in a class of the regular expression:
\* "s" is \s, "w" is \w, "d" is \d, "np" is [^|]
inClass(cls, c) ==
    CASE cls = "s" -> c \in WhitespaceChars
      [] cls = "w" -> c \in WordChars
      [] cls = "d" -> \E d \in 1..10 : Digits[d] = c
      [] cls = "np" -> c # "|"

Lit(str) == [type |-> "lit", cls |-> "", opts |-> <<str>>]

Star(c) == [type |-> "star", cls |-> c, opts |-> <<>>]

Plus(c) == [type |-> "plus", cls |-> c, opts |-> <<>>]

Alt(options) == [type |-> "alt", cls |-> "", opts |-> options]

\* (<red> CRITICAL|<yellow> IMPORTANT|<blue> MINOR)
severityTokens ==
    <<<<"<red>", " ", "C", "R", "I", "T", "I", "C", "A", "L">>,
      <<"<yellow>", " ", "I", "M", "P", "O", "R", "T", "A", "N", "T">>,
      <<"<blue>", " ", "M", "I", "N", "O", "R">>>>

\* (?:cs|js|ts|tsx|jsx|py|java|go)
extensionTokens ==
    <<<<"c", "s">>, <<"j", "s">>, <<"t", "s">>, <<"t", "s", "x">>,
      <<"j", "s", "x">>, <<"p", "y">>, <<"j", "a", "v", "a">>, <<"g", "o">>>>

\* tableRowRegex, element by element
tableRowRegex ==
    << Lit(<<"|">>), Star("s"), Alt(severityTokens), Star("s"),
       Lit(<<"|">>), Star("s"), Plus("w"), Star("s"),
       Lit(<<"|">>), Star("s"), Plus("np"), Lit(<<".">>), Alt(extensionTokens),
       Star("s"),
       Lit(<<"|">>), Star("s"), Plus("d"), Star("s"),
       Lit(<<"|">>), Star("s"), Plus("np"),
       Lit(<<"|">>), Star("s"), Plus("np"),
       Lit(<<"|">>) >>

\* str occurs in text at position pos (1-based)
startsWithAt(text, pos, str) ==
    /\ pos + Len(str) - 1 <= Len(text)
    /\ \A j \in 1..Len(str) : text[pos + j - 1] = str[j]

\* Length of the longest run of characters of class cls in text from pos
runLength(text, pos, cls) ==
    LET stops == {j \in pos..Len(text) : ~inClass(cls, text[j])}
    IN IF stops = {} THEN Len(text) + 1 - pos
       ELSE (CHOOSE j \in stops : \A i \in stops : j <= i) - pos

\* The candidate lengths element e can consume from pos, a literal or an
\* alternative as the lengths of its options, a quantifier as least..run
candidateLengths(text, pos, e) ==
    IF e.type \in {"lit", "alt"}
    THEN {Len(e.opts[j]) : j \in {i \in 1..Len(e.opts) :
                                     startsWithAt(text, pos, e.opts[i])}}
    ELSE (IF e.type = "plus" THEN 1 ELSE 0)..runLength(text, pos, e.cls)

\* Some way of matching the elements k.. of pat against text from pos exists
RECURSIVE canMatch(_, _, _, _)
canMatch(text, pat, k, pos) ==
    IF k > Len(pat) THEN TRUE
    ELSE \E n \in candidateLengths(text, pos, pat[k]) :
            canMatch(text, pat, k + 1, pos + n)

\* The option of an alternative the engine takes at pos: the first in order
\* that lets the rest of the pattern match (0 when there is none)
chosenOption(text, pat, k, pos) ==
    LET e == pat[k]
        good == {j \in 1..Len(e.opts) :
                    /\ startsWithAt(text, pos, e.opts[j])
                    /\ canMatch(text, pat, k + 1, pos + Len(e.opts[j]))}
    IN IF good = {} THEN 0 ELSE CHOOSE j \in good : \A i \in good : j <= i

\* The number of characters a greedy quantifier takes at pos: the largest
\* that lets the rest of the pattern match (-1 when there is none)
chosenRepeat(text, pat, k, pos) ==
    LET good == {n \in candidateLengths(text, pos, pat[k]) :
                    canMatch(text, pat, k + 1, pos + n)}
    IN IF good = {} THEN -1 ELSE CHOOSE n \in good : \A i \in good : n >= i

\* Backtracking match of the elements k.. of pat against text from pos:
\* Null when there is none, otherwise Some(e), e the end positions (the
\* position after the last character consumed) of the elements k.., for the
\* first match in the engine's order (greedy quantifiers, alternatives in
\* order).
RECURSIVE matchFrom(_, _, _, _)
matchFrom(text, pat, k, pos) ==
    IF k > Len(pat) THEN Some(<<>>)
    ELSE LET e == pat[k]
             n == IF e.type \in {"lit", "alt"}
                  THEN LET j == chosenOption(text, pat, k, pos)
                       IN IF j = 0 THEN -1 ELSE Len(e.opts[j])
                  ELSE chosenRepeat(text, pat, k, pos)
         IN IF n < 0 THEN Null
            ELSE Some(<<pos + n>> \o matchFrom(text, pat, k + 1, pos + n)[1])

\* String.prototype.trim
trim(str) ==
    LET keep == {j \in 1..Len(str) : str[j] \notin WhitespaceChars}
    IN IF keep = {} THEN <<>>
       ELSE SubSeq(str, CHOOSE j \in keep : \A i \in keep : j <= i,
                        CHOOSE j \in keep : \A i \in keep : j >= i)

\* parseInt(digits, 10) for a non-empty run of decimal digits
RECURSIVE parseInt(_)
parseInt(ds) ==
    IF Len(ds) = 0 THEN 0
    ELSE 10 * parseInt(SubSeq(ds, 1, Len(ds) - 1))
         + ((CHOOSE d \in 1..10 : Digits[d] = ds[Len(ds)]) - 1)

\* The line field of an issue: parseInt(match[4], 10)
issueLine(digits) == parseInt(digits)

\* The object pushed for a match starting at start with element ends e
issueOf(text, start, e) ==
    [severity |-> trim(SubSeq(text, e[2], e[3] - 1)),
     category |-> trim(SubSeq(text, e[6], e[7] - 1)),
     fileName |-> trim(SubSeq(text, e[10], e[13] - 1)),
     line     |-> issueLine(SubSeq(text, e[16], e[17] - 1)),
     issue    |-> trim(SubSeq(text, e[20], e[21] - 1)),
     fix      |-> trim(SubSeq(text, e[23], e[24] - 1))]

\* The while loop over tableRowRegex.exec with the g flag: the issues pushed
\* from lastIndex (0-based) on
RECURSIVE execLoop(_, _)
execLoop(text, lastIndex) ==
    LET starts == {p \in (lastIndex + 1)..Len(text) :
                      canMatch(text, tableRowRegex, 1, p)}
    IN IF starts = {} THEN <<>>
       ELSE LET p == CHOOSE p \in starts : \A i \in starts : p <= i
                e == matchFrom(text, tableRowRegex, 1, p)[1]
            IN <<issueOf(text, p, e)>> \o execLoop(text, e[Len(e)] - 1)

parseReviewIssues(text) == execLoop(text, 0)


(***************************************************************************)
(* extractPendingComments                                                  *)
(* A thread is [isDeleted, status, threadContext, comments], a thread      *)
(* context [filePath, rightFileStart, leftFileStart], a file position      *)
(* [line], a comment [commentType, content]; every field is Null (absent,  *)
(* null) or Some(value).  A status or comment type is a string or a        *)
(* number: JStr(s) or JNum(n).                                             *)
(***************************************************************************)
JStr(str) == <<"string", str>>

JNum(n) == <<"number", n>>

\* a === b for strings and numbers: same type and same value
strictEquals(a, b) == a[1] = b[1] /\ a[2] = b[2]

\* if (thread.isDeleted) continue;
threadIsDeleted(thread) ==
    thread.isDeleted # Null /\ thread.isDeleted[1] = TRUE

\* Mutant of threadIsActive: the policy of prfix.js, everything that is not
\* 'fixed' or 'closed'
threadIsActive_NotClosed(thread) ==
    \/ thread.status = Null
    \/ /\ ~strictEquals(thread.status[1], JStr("fixed"))
       /\ ~strictEquals(thread.status[1], JStr("closed"))

\* !(thread.status !== 'active' && thread.status !== 1)
threadIsActive(thread) ==
    /\ thread.status # Null
    /\ \/ strictEquals(thread.status[1], JStr("active"))
       \/ strictEquals(thread.status[1], JNum(1))

\* threadContext?.filePath || null
threadFilePath(thread) ==
    LET ctx == thread.threadContext
    IN IF ctx # Null /\ ctx[1].filePath # Null /\ ctx[1].filePath[1] # ""
       THEN ctx[1].filePath ELSE Null

\* position?.line, as a truthy number or Null
truthyLine(position) ==
    IF position # Null /\ position[1].line # Null /\ position[1].line[1] # 0
    THEN position[1].line ELSE Null

\* Mutant of threadLine: the left side is preferred
threadLine_LeftFirst(thread) ==
    LET ctx == thread.threadContext
    IN IF ctx = Null THEN Null
       ELSE IF truthyLine(ctx[1].leftFileStart) # Null
            THEN truthyLine(ctx[1].leftFileStart)
            ELSE truthyLine(ctx[1].rightFileStart)

\* threadContext?.rightFileStart?.line || threadContext?.leftFileStart?.line
\* || null
threadLine(thread) ==
    LET ctx == thread.threadContext
    IN IF ctx = Null THEN Null
       ELSE IF truthyLine(ctx[1].rightFileStart) # Null
            THEN truthyLine(ctx[1].rightFileStart)
            ELSE truthyLine(ctx[1].leftFileStart)

\* Mutant of commentIsSkipped: system comments are kept
commentIsSkipped_KeepSystem(comment) ==
    comment.content = Null \/ comment.content[1] = <<>>

\* if (comment.commentType === 'system') continue;
\* if (!comment.content) continue;
commentIsSkipped(comment) ==
    \/ /\ comment.commentType # Null
       /\ strictEquals(comment.commentType[1], JStr("system"))
    \/ comment.content = Null
    \/ comment.content[1] = <<>>

\* content.replace(/\n/g, ' ')
replaceNewlines(content) ==
    [i \in 1..Len(content) |-> IF content[i] = NL THEN " " ELSE content[i]]

\* Mutant of normalizeContent: the trim is forgotten
normalizeContent_NoTrim(content) == replaceNewlines(content)

\* comment.content.replace(/\n/g, ' ').trim()
normalizeContent(content) == trim(replaceNewlines(content))

\* The inner loop over thread.comments || [] from position k: the records
\* pushed
RECURSIVE commentsLoop(_, _, _, _)
commentsLoop(list, k, filePath, lineNumber) ==
    IF k > Len(list) THEN <<>>
    ELSE (IF commentIsSkipped(list[k]) THEN <<>>
          ELSE <<[file |-> filePath, line |-> lineNumber,
                  comment |-> normalizeContent(list[k].content[1])]>>)
         \o commentsLoop(list, k + 1, filePath, lineNumber)

\* One iteration of the outer loop: the records pushed for thread
threadComments(thread) ==
    IF threadIsDeleted(thread) THEN <<>>
    ELSE IF ~threadIsActive(thread) THEN <<>>
    ELSE commentsLoop(IF thread.comments = Null THEN <<>> ELSE thread.comments[1],
                      1, threadFilePath(thread), threadLine(thread))

\* The outer loop over threads from position k
RECURSIVE threadsLoop(_, _)
threadsLoop(list, k) ==
    IF k > Len(list) THEN <<>>
    ELSE threadComments(list[k]) \o threadsLoop(list, k + 1)

extractPendingComments(list) == threadsLoop(list, 1)


(***************************************************************************)
(* Inputs of extractChangedLines                                           *)
(***************************************************************************)
MaxLines == 3

LineAlphabet == {<<>>, <<"a">>, <<"b">>}

\* Every text of 1..MaxLines lines over LineAlphabet (the empty text included)
SmallTexts ==
    {join(ls) : ls \in UNION {[1..n -> LineAlphabet] : n \in 1..MaxLines}}

\* n lines cycling through the lines of block
cycleLines(block, n) == [i \in 1..n |-> block[((i - 1) % Len(block)) + 1]]

LongBlocks ==
    {<<<<"a">>>>, <<<<"b">>>>, <<<<"a">>, <<"b">>>>,
     <<<<"a">>, <<"a">>, <<"a">>, <<"a">>, <<"b">>>>}

\* Lengths around the two caps
LongLengths == {MAX_TOTAL_LINES + 1, MAX_LINES_NEW_FILE + 1}

LongTexts == {join(cycleLines(b, n)) : b \in LongBlocks, n \in LongLengths}

\* 'a\nb\nc'
SampleTexts == {<<"a", NL, "b", NL, "c">>}

Texts == SmallTexts \cup LongTexts \cup SampleTexts

Contexts == {0, 1, DEFAULT_MAX_CONTEXT}

(***************************************************************************)
(* Specification of a call of extractChangedLines                          *)
(***************************************************************************)
InitDiff ==
    /\ pc = "diff_call"
    /\ \/ oldContent \in {Some(t) : t \in Texts \ {<<>>}}  \* a previous text
       \/ oldContent \in {Null, Some(<<>>)}              \* none, or an empty one
    /\ newContent \in Texts
    /\ maxContext \in Contexts
    /\ diffResult = <<>>
    /\ IdleExcept("diff")

CallExtractChangedLines ==
    /\ pc = "diff_call"
    /\ diffResult' = extractChangedLines(oldContent, newContent, maxContext)
    /\ pc' = "diff_done"
    /\ UNCHANGED <<oldContent, newContent, maxContext>>
    /\ UnchangedExcept("diff")

NextDiff == CallExtractChangedLines

SpecDiff == InitDiff /\ [][NextDiff]_vars

(***************************************************************************)
(* Properties of extractChangedLines                                       *)
(***************************************************************************)
DiffDone == pc = "diff_done"

\* The lines of the returned string
OutLines == split(diffResult)

OldLinesIn == split(oldContent[1])

NewLinesIn == split(newContent)

\* Index i (0-based) holds different content in the texts with lines oldL
\* and newL, an index present in only one of them included
DiffersAt(oldL, newL, i) ==
    \/ (i < Len(oldL)) # (i < Len(newL))
    \/ /\ i < Len(oldL)
       /\ i < Len(newL)
       /\ oldL[i + 1] # newL[i + 1]

DifferingIndices(oldL, newL) ==
    {i \in 0..(Max(Len(oldL), Len(newL)) - 1) : DiffersAt(oldL, newL, i)}

\* Position of the first "|" of an output line, 0 if there is none
BarPos(line) ==
    IF \E k \in 1..Len(line) : line[k] = "|"
    THEN CHOOSE k \in 1..Len(line) :
            line[k] = "|" /\ \A j \in 1..(k - 1) : line[j] # "|"
    ELSE 0

IsDigit(c) == \E d \in 1..10 : Digits[d] = c

DigitValue(c) == (CHOOSE d \in 1..10 : Digits[d] = c) - 1

\* The number a sequence of decimal digits denotes
RECURSIVE ParseNat(_)
ParseNat(ds) ==
    IF Len(ds) = 0 THEN 0
    ELSE 10 * ParseNat(SubSeq(ds, 1, Len(ds) - 1)) + DigitValue(ds[Len(ds)])

\* An output line of the form <prefix><decimal number>|<content>
IsRendered(line) ==
    /\ BarPos(line) > 2
    /\ line[1] \in {"+", " "}
    /\ \A k \in 2..(BarPos(line) - 1) : IsDigit(line[k])
    /\ (line[2] = "0" => BarPos(line) = 3)

LinePrefixOf(line) == line[1]

LineNumberOf(line) == ParseNat(SubSeq(line, 2, BarPos(line) - 1))

LineTextOf(line) == SubSeq(line, BarPos(line) + 1, Len(line))

\* The line numbers the output lines out carry with the given prefixes
NumbersWithPrefix(out, prefixes) ==
    {LineNumberOf(out[k]) :
        k \in {j \in 1..Len(out) :
                  IsRendered(out[j]) /\ LinePrefixOf(out[j]) \in prefixes}}

\* C1: whenever a previous revision is present, the returned string has at
\* most 100 lines.  (Stated as claimed; the code breaks it when the previous
\* revision is the empty text.)
C1_AtMost100Lines ==
    (DiffDone /\ oldContent # Null) => Len(OutLines) <= MAX_TOTAL_LINES

\* C2 as claimed: whenever a previous revision is present, every index at
\* which old and new differ appears in the output as a "+" line.
C2_EveryDifferingLineMarked ==
    (DiffDone /\ oldContent # Null) =>
        LET plus == NumbersWithPrefix(OutLines, {"+"})
        IN \A i \in DifferingIndices(OldLinesIn, NewLinesIn) : (i + 1) \in plus

\* C2 amended: whenever a previous revision is present, every index at which
\* old and new differ appears in the output as a "+" line unless the output
\* cap cut it off: a differing index is missing only if the output holds at
\* least 100 lines and the index lies beyond every rendered line.
C2_DifferingLineMarkedUnlessCut ==
    (DiffDone /\ oldContent # Null) =>
        LET out == OutLines
            plus == NumbersWithPrefix(out, {"+"})
            rendered == NumbersWithPrefix(out, {"+", " "})
        IN \A i \in DifferingIndices(OldLinesIn, NewLinesIn) :
              \/ (i + 1) \in plus
              \/ /\ Len(out) >= MAX_TOTAL_LINES
                 /\ \A n \in rendered : n < i + 1

\* C2 witness: a paired diff whose old text is longer than the new one, with
\* the indices present only in the old text and a differing index of the new
\* text all rendered as "+" lines.
C2_Witness ==
    /\ DiffDone
    /\ oldContent # Null
    /\ ~isFalsyString(oldContent)
    /\ Len(OldLinesIn) > Len(NewLinesIn) + 1
    /\ LET plus == NumbersWithPrefix(OutLines, {"+"})
       IN /\ \A i \in Len(NewLinesIn)..(Len(OldLinesIn) - 1) : (i + 1) \in plus
          /\ \E i \in 0..(Len(NewLinesIn) - 1) :
                DiffersAt(OldLinesIn, NewLinesIn, i) /\ (i + 1) \in plus

\* C3: with no previous revision (null) the output is exactly the first
\* min(n, 150) lines of the new text in order, the i-th rendered "+i|<line i>"
\* with i counted from 1; 'a\nb\nc' gives '+1|a\n+2|b\n+3|c'.
C3_NewFileRendering ==
    (DiffDone /\ oldContent = Null) =>
        /\ Len(OutLines) = Min(Len(NewLinesIn), MAX_LINES_NEW_FILE)
        /\ \A i \in 1..Len(OutLines) :
              /\ IsRendered(OutLines[i])
              /\ LinePrefixOf(OutLines[i]) = "+"
              /\ LineNumberOf(OutLines[i]) = i
              /\ LineTextOf(OutLines[i]) = NewLinesIn[i]
        /\ (newContent = <<"a", NL, "b", NL, "c">> =>
              diffResult = <<"+", "1", "|", "a", NL, "+", "2", "|", "b", NL,
                             "+", "3", "|", "c">>)

\* C3 witness: a new file longer than the cap, rendered as exactly 150 lines.
C3_Witness ==
    /\ DiffDone
    /\ oldContent = Null
    /\ Len(NewLinesIn) > MAX_LINES_NEW_FILE
    /\ Len(OutLines) = MAX_LINES_NEW_FILE

\* C4: comparing any text with itself, the empty text included, yields no
\* "+" line and no diff content at all.  (Stated as claimed; the code breaks
\* it for the empty text.)
C4_SelfDiffIsEmpty ==
    (DiffDone /\ oldContent = Some(newContent)) => diffResult = <<>>

Separator == <<".", ".", ".">>

\* The entries of the returned string: its lines, none for the empty string
OutEntries == IF diffResult = <<>> THEN <<>> ELSE OutLines

\* The content a rendered line for 0-based index i is to carry
ExpectedContent(newL, i) == IF i < Len(newL) THEN newL[i + 1] ELSE <<>>

\* C25: in a diff of an old and a new text, every rendered (non-separator)
\* line for 0-based index i is <prefix><i+1>|<content>, content being line i
\* of the new text or empty beyond it, the prefix "+" exactly when old and
\* new differ at i and a space otherwise.  (Stated as claimed; the code
\* breaks it when the old text is empty.)
C25_RenderedLineForm ==
    (DiffDone /\ oldContent # Null) =>
        LET out == OutEntries
            oldL == OldLinesIn
            newL == NewLinesIn
        IN \A k \in 1..Len(out) :
              out[k] # Separator =>
                  /\ IsRendered(out[k])
                  /\ LineNumberOf(out[k]) >= 1
                  /\ LET i == LineNumberOf(out[k]) - 1
                     IN /\ LineTextOf(out[k]) = ExpectedContent(newL, i)
                        /\ (LinePrefixOf(out[k]) = "+") <=> DiffersAt(oldL, newL, i)

\* Every non-separator entry of out is a rendered line, and of two
\* neighbouring rendered lines the second carries the next number
RunsAreContiguous(out) ==
    /\ \A k \in 1..Len(out) : out[k] # Separator => IsRendered(out[k])
    /\ \A k \in 1..(Len(out) - 1) :
          (out[k] # Separator /\ out[k + 1] # Separator) =>
              LineNumberOf(out[k + 1]) = LineNumberOf(out[k]) + 1

\* The separator at position k of out stands between two rendered lines
\* whose numbers differ by more than 1
SeparatesRuns(out, k) ==
    /\ k > 1
    /\ k < Len(out)
    /\ out[k - 1] # Separator
    /\ out[k + 1] # Separator
    /\ LineNumberOf(out[k + 1]) > LineNumberOf(out[k - 1]) + 1

\* C26 as claimed: rendered line numbers increase strictly, and a "..." line
\* stands between two consecutive rendered lines exactly when their indices
\* differ by more than 1; the output never starts or ends with "..." and
\* never holds two of them in a row.
C26_SeparatorExactlyBetweenRuns ==
    (DiffDone /\ oldContent # Null) =>
        LET out == OutEntries
        IN /\ RunsAreContiguous(out)
           /\ \A k \in 1..Len(out) : out[k] = Separator => SeparatesRuns(out, k)

\* C26 amended: as claimed, except that the last entry of an output cut at
\* the cap of 100 entries may be a "..." line, which then follows a rendered
\* line.
C26_SeparatorBetweenRunsUnlessCut ==
    (DiffDone /\ oldContent # Null) =>
        LET out == OutEntries
        IN /\ RunsAreContiguous(out)
           /\ \A k \in 1..Len(out) :
                 out[k] = Separator =>
                     \/ SeparatesRuns(out, k)
                     \/ /\ k = MAX_TOTAL_LINES
                        /\ k = Len(out)
                        /\ out[k - 1] # Separator

\* C26 witness: an output with a separator between two runs that was cut at
\* the cap right after another separator
C26_Witness ==
    /\ DiffDone
    /\ ~isFalsyString(oldContent)
    /\ LET out == OutEntries
       IN /\ Len(out) = MAX_TOTAL_LINES
          /\ out[MAX_TOTAL_LINES] = Separator
          /\ \E k \in 2..(MAX_TOTAL_LINES - 1) :
                out[k] = Separator /\ SeparatesRuns(out, k)

\* The indices rendered before the output is cut: those of the new text's
\* lines when the new-file branch runs, changedLineNumbers otherwise
RenderedIndices ==
    IF isFalsyString(oldContent) THEN 0..(Len(NewLinesIn) - 1)
    ELSE changedLineNumbers(OldLinesIn, NewLinesIn, maxContext)

\* The windows [i-K, i+K] of the differing indices i, clipped to the valid
\* indices 0..max(len(old), len(new)) - 1
ClippedWindows(oldL, newL, K) ==
    UNION {Max(0, i - K)..Min(Max(Len(oldL), Len(newL)) - 1, i + K) :
              i \in DifferingIndices(oldL, newL)}

\* C27: in a diff of an old and a new text with context K, the indices
\* rendered before truncation are the union over the differing indices i of
\* [i-K, i+K] clipped to [0, max(len(old), len(new)) - 1].  (Stated as
\* claimed; the code breaks it when the old text is empty.)
C27_RenderedIndicesAreClippedWindows ==
    (DiffDone /\ oldContent # Null) =>
        RenderedIndices = ClippedWindows(OldLinesIn, NewLinesIn, maxContext)

(***************************************************************************)
(* Inputs of parseReviewIssues                                             *)
(***************************************************************************)
MaxRows == 2

AnnotatedSeverities == {severityTokens[j] : j \in 1..Len(severityTokens)}

\* The severity words as the review prompts write them
BareSeverities ==
    {<<"C", "R", "I", "T", "I", "C", "A", "L">>,
     <<"I", "M", "P", "O", "R", "T", "A", "N", "T">>,
     <<"M", "I", "N", "O", "R">>}

SeverityCells == AnnotatedSeverities \cup BareSeverities \cup {<<"H", "I", "G", "H">>}

CategoryCells == {<<"B", "u", "g", "s">>, <<"C", "l", "e", "a", "n", " ", "C", "o", "d", "e">>, <<>>}

KnownFileCells == {<<"Q", "u", "e", "r", "y", ".", "c", "s">>, <<"a", ".", "t", "s", "x">>, <<"s", "r", "c", "/", "b", ".", "g", "o">>}

FileCells == KnownFileCells \cup {<<"n", "o", "t", "e", "s", ".", "m", "d">>}

NumericLineCells == {<<"4", "5">>, <<"0">>, <<"7">>, <<"1", "2", "0">>}

LineCells == NumericLineCells \cup {<<"x">>, <<>>}

IssueCells == {<<"x">>}

FixCells == {<<"y">>, <<>>}

Pads == {<<>>, <<" ">>}

\* A table row of six cells, each padded by p on both sides
tableRow(p, sev, cat, file, line, issue, fix) ==
    <<"|">> \o p \o sev \o p \o <<"|">> \o p \o cat \o p \o <<"|">>
    \o p \o file \o p \o <<"|">> \o p \o line \o p \o <<"|">>
    \o p \o issue \o p \o <<"|">> \o p \o fix \o p \o <<"|">>

SingleRowTexts ==
    {tableRow(p, sev, cat, file, line, issue, fix) :
        p \in Pads, sev \in SeverityCells, cat \in CategoryCells,
        file \in FileCells, line \in LineCells, issue \in IssueCells,
        fix \in FixCells}

\* The row of the review prompts' output structure (prompts/backend.js)
PromptRow ==
    <<"|", " ", "C", "R", "I", "T", "I", "C", "A", "L", " ", "|", " ", "B",
      "u", "g", "s", " ", "|", " ", "Q", "u", "e", "r", "y", ".", "c", "s",
      " ", "|", " ", "4", "5", " ", "|", " ", "[", "b", "r", "i", "e", "f",
      "]", " ", "|", " ", "[", "b", "r", "i", "e", "f", "]", " ", "|">>

\* The row of the unit test 'parses table rows into issues array'
TestRow ==
    <<"|", " ", "<red>", " ", "C", "R", "I", "T", "I", "C", "A", "L", " ",
      "|", " ", "B", "u", "g", "s", " ", "|", " ", "Q", "u", "e", "r", "y",
      ".", "c", "s", " ", "|", " ", "4", "5", " ", "|", " ", "n", "u", "l",
      "l", " ", "c", "h", "e", "c", "k", " ", "m", "i", "s", "s", "i", "n",
      "g", " ", "|", " ", "a", "d", "d", " ", "n", "u", "l", "l", " ", "c",
      "h", "e", "c", "k", " ", "|">>

HeaderRow ==
    <<"|", " ", "S", "e", "v", "e", "r", "i", "t", "y", " ", "|", " ", "C",
      "a", "t", "e", "g", "o", "r", "y", " ", "|", " ", "F", "i", "l", "e",
      " ", "|", " ", "L", "i", "n", "e", " ", "|", " ", "I", "s", "s", "u",
      "e", " ", "|", " ", "F", "i", "x", " ", "|">>

ZeroLineRow ==
    <<"|", " ", "<yellow>", " ", "I", "M", "P", "O", "R", "T", "A", "N",
      "T", " ", "|", " ", "P", "e", "r", "f", "o", "r", "m", "a", "n", "c",
      "e", " ", "|", " ", "S", "e", "r", "v", "i", "c", "e", ".", "c", "s",
      " ", "|", " ", "0", " ", "|", " ", "N", "+", "1", " ", "q", "u", "e",
      "r", "y", " ", "|", " ", "u", "s", "e", " ", "I", "n", "c", "l", "u",
      "d", "e", " ", "|">>

MinorRow ==
    <<"|", "<blue>", " ", "M", "I", "N", "O", "R", "|", "C", "l", "e", "a",
      "n", "C", "o", "d", "e", "|", "U", "t", "i", "l", "s", ".", "t", "s",
      "|", "1", "0", "|", "u", "n", "u", "s", "e", "d", " ", "v", "a", "r",
      "|", "r", "e", "m", "o", "v", "e", " ", "i", "t", "|">>

ProseLine == <<"#", "#", "#", " ", "I", "s", "s", "u", "e", "s">>

RowSamples == {PromptRow, TestRow, HeaderRow, ZeroLineRow, MinorRow, ProseLine}

\* Review texts of 0..MaxRows lines drawn from RowSamples
MultiRowTexts ==
    {join(ls) : ls \in UNION {[1..n -> RowSamples] : n \in 0..MaxRows}}

ReviewTexts == SingleRowTexts \cup MultiRowTexts

(***************************************************************************)
(* Specification of a call of parseReviewIssues                            *)
(***************************************************************************)
InitParse ==
    /\ pc = "parse_call"
    /\ reviewText \in ReviewTexts
    /\ issues = <<>>
    /\ IdleExcept("parse")

CallParseReviewIssues ==
    /\ pc = "parse_call"
    /\ issues' = parseReviewIssues(reviewText)
    /\ pc' = "parse_done"
    /\ UNCHANGED reviewText
    /\ UnchangedExcept("parse")

NextParse == CallParseReviewIssues

SpecParse == InitParse /\ [][NextParse]_vars

(***************************************************************************)
(* Properties of parseReviewIssues                                         *)
(***************************************************************************)
ParseDone == pc = "parse_done"

\* name ends in "." followed by one of the recognized extensions
EndsInKnownExtension(name) ==
    \E j \in 1..Len(extensionTokens) :
        LET ext == <<".">> \o extensionTokens[j]
        IN /\ Len(name) >= Len(ext)
           /\ SubSeq(name, Len(name) - Len(ext) + 1, Len(name)) = ext

\* The six-column rows whose cells are all of the prescribed kind, with the
\* severity written bare or annotated with its marker
SixColumnRows ==
    {tableRow(p, sev, <<"B", "u", "g", "s">>, file, line, issue, <<"y">>) :
        p \in Pads, sev \in AnnotatedSeverities \cup BareSeverities,
        file \in KnownFileCells, line \in NumericLineCells, issue \in IssueCells}
    \cup {PromptRow, TestRow}

\* C5: every issue emitted has a line that is a positive integer (>= 1) and a
\* fileName ending in one of the recognized extensions.  (Stated as claimed;
\* the code emits line 0 for a row whose line cell is 0.)
C5_LinePositiveAndKnownExtension ==
    ParseDone =>
        \A k \in 1..Len(issues) :
            /\ issues[k].line \in Nat
            /\ issues[k].line >= 1
            /\ EndsInKnownExtension(issues[k].fileName)

\* C6: a six-column review row yields one issue whether its severity is the
\* bare word or the word annotated with its marker; in particular the row of
\* the review prompts' output structure yields one issue.  (Stated as
\* claimed; the code matches only the annotated severities.)
C6_BareOrAnnotatedSeverityParsed ==
    (ParseDone /\ reviewText \in SixColumnRows) =>
        /\ Len(issues) = 1
        /\ issues[1].severity \in AnnotatedSeverities \cup BareSeverities

(***************************************************************************)
(* Inputs of extractPendingComments                                        *)
(* Lines are the 1-based line numbers and paths the non-empty repository   *)
(* paths that the thread API of the tracker reports.                       *)
(***************************************************************************)
MaxThreads == 2

MaxComments == 2

MaxContentLen == 2

SeqsUpTo(S, n) == UNION {[1..k -> S] : k \in 0..n}

DeletedFlags == {Null, Some(FALSE), Some(TRUE)}

Statuses ==
    {Null, Some(JStr("active")), Some(JNum(1)), Some(JStr("closed")),
     Some(JStr("fixed")), Some(JStr("pending")), Some(JStr("1")),
     Some(JNum(0)), Some(JNum(2)), Some(JNum(4))}

RightPositions == {Null, Some([line |-> Null]), Some([line |-> Some(10)])}

LeftPositions == {Null, Some([line |-> Null]), Some([line |-> Some(5)])}

FilePaths == {Null, Some("/src/File.cs")}

ThreadContexts ==
    {Null} \cup
    {Some([filePath |-> f, rightFileStart |-> r, leftFileStart |-> l]) :
        f \in FilePaths, r \in RightPositions, l \in LeftPositions}

ContentAlphabet == {"a", " ", NL, "\t"}

Contents == {Null} \cup {Some(c) : c \in SeqsUpTo(ContentAlphabet, MaxContentLen)}

textComment(content) ==
    [commentType |-> Some(JStr("text")), content |-> Some(content)]

FixComment == textComment(<<"f", "i", "x">>)

SystemComment ==
    [commentType |-> Some(JStr("system")), content |-> Some(<<"s", "y", "s">>)]

EmptyComment == textComment(<<>>)

NullComment == [commentType |-> Some(JStr("text")), content |-> Null]

UntypedComment ==
    [commentType |-> Null, content |-> Some(<<"L", "1", NL, "L", "2">>)]

PaddedComment == textComment(<<" ", "o", NL, "k", NL>>)

CommentSamples ==
    {FixComment, SystemComment, EmptyComment, NullComment, UntypedComment,
     PaddedComment}

BothSidesContext ==
    Some([filePath |-> Some("/src/File.cs"),
          rightFileStart |-> Some([line |-> Some(10)]),
          leftFileStart |-> Some([line |-> Some(5)])])

LeftOnlyContext ==
    Some([filePath |-> Some("/src/Old.cs"), rightFileStart |-> Null,
          leftFileStart |-> Some([line |-> Some(5)])])

activeThread(ctx, list) ==
    [isDeleted |-> Some(FALSE), status |-> Some(JStr("active")),
     threadContext |-> ctx, comments |-> list]

\* every deletion flag, status and thread context, one comment
FlaggedThreads ==
    {[isDeleted |-> d, status |-> st, threadContext |-> ctx,
      comments |-> Some(<<FixComment>>)] :
        d \in DeletedFlags, st \in Statuses, ctx \in ThreadContexts}

\* an active thread with one comment of every content
ContentThreads ==
    {activeThread(BothSidesContext,
                  Some(<<[commentType |-> Some(JStr("text")), content |-> c]>>)) :
        c \in Contents}

\* an active thread with every short list of comments
CommentListThreads ==
    {activeThread(LeftOnlyContext, Null)} \cup
    {activeThread(LeftOnlyContext, Some(list)) :
        list \in SeqsUpTo(CommentSamples, MaxComments)}

ThreadSamples ==
    {activeThread(BothSidesContext, Some(<<FixComment, UntypedComment>>)),
     activeThread(LeftOnlyContext, Some(<<SystemComment, PaddedComment>>)),
     [isDeleted |-> Null, status |-> Some(JNum(1)), threadContext |-> Null,
      comments |-> Some(<<PaddedComment>>)],
     [isDeleted |-> Some(TRUE), status |-> Some(JStr("active")),
      threadContext |-> BothSidesContext, comments |-> Some(<<FixComment>>)],
     [isDeleted |-> Null, status |-> Some(JStr("closed")),
      threadContext |-> LeftOnlyContext, comments |-> Some(<<UntypedComment>>)],
     [isDeleted |-> Null, status |-> Some(JStr("pending")),
      threadContext |-> Null, comments |-> Some(<<FixComment>>)]}

ThreadLists ==
    {<<t>> : t \in FlaggedThreads \cup ContentThreads \cup CommentListThreads}
    \cup SeqsUpTo(ThreadSamples, MaxThreads)

(***************************************************************************)
(* Specification of a call of extractPendingComments                       *)
(***************************************************************************)
InitComments ==
    /\ pc = "comments_call"
    /\ threads \in ThreadLists
    /\ comments = <<>>
    /\ IdleExcept("comments")

CallExtractPendingComments ==
    /\ pc = "comments_call"
    /\ comments' = extractPendingComments(threads)
    /\ pc' = "comments_done"
    /\ UNCHANGED threads
    /\ UnchangedExcept("comments")

NextComments == CallExtractPendingComments

SpecComments == InitComments /\ [][NextComments]_vars

(***************************************************************************)
(* Properties of extractPendingComments                                    *)
(***************************************************************************)
CommentsDone == pc = "comments_done"

\* The deletion flag is unset and the status is 'active' or 1
PendingThread(thread) ==
    /\ thread.isDeleted \in {Null, Some(FALSE)}
    /\ thread.status \in {Some(JStr("active")), Some(JNum(1))}

CommentsOf(thread) ==
    IF thread.comments = Null THEN <<>> ELSE thread.comments[1]

\* Not of the system type, with a content of at least one character
UserComment(comment) ==
    /\ comment.commentType # Some(JStr("system"))
    /\ comment.content # Null
    /\ Len(comment.content[1]) > 0

\* The positions <<thread, comment>> of the user comments of pending threads
EmittedPositions(list) ==
    {q \in UNION {{<<t, c>> : c \in 1..Len(CommentsOf(list[t]))} :
                    t \in 1..Len(list)} :
        PendingThread(list[q[1]]) /\ UserComment(CommentsOf(list[q[1]])[q[2]])}

\* The rank of position q among positions Q, threads first, then comments
RankIn(Q, q) ==
    Cardinality({r \in Q : r[1] < q[1] \/ (r[1] = q[1] /\ r[2] <= q[2])})

IsBlank(ch) == ch \in {" ", NL, "\t"}

Visible(text) == SelectSeq(text, LAMBDA ch : ~IsBlank(ch))

\* C7: a thread contributes comments only if its deletion flag is unset and
\* its status is the string 'active' or the number 1: with no such thread
\* the result is empty, and removing every other thread (deleted, closed,
\* fixed, any other status, no status) from the input leaves the result as
\* it is, with at most one record per comment of the remaining threads.
C7_OnlyPendingThreadsContribute ==
    CommentsDone =>
        LET kept == SelectSeq(threads, PendingThread)
            held == UNION {{<<t, c>> : c \in 1..Len(CommentsOf(threads[t]))} :
                            t \in {i \in 1..Len(threads) :
                                      PendingThread(threads[i])}}
        IN /\ (kept = <<>> => comments = <<>>)
           /\ comments = extractPendingComments(kept)
           /\ \A k \in 1..Len(threads) :
                ~PendingThread(threads[k]) =>
                    comments = extractPendingComments(
                        [i \in 1..(Len(threads) - 1) |->
                            IF i < k THEN threads[i] ELSE threads[i + 1]])
           /\ Len(comments) <= Cardinality(held)

C7_Witness ==
    /\ CommentsDone
    /\ Len(comments) > 0
    /\ \E k \in 1..Len(threads) :
        /\ ~PendingThread(threads[k])
        /\ \E c \in 1..Len(CommentsOf(threads[k])) :
            UserComment(CommentsOf(threads[k])[c])

\* C8: within the threads that pass the filter, exactly the comments that
\* are not of the system type and have a non-empty content are emitted, one
\* record each, in thread order and then in comment order.
C8_UserCommentsInOrder ==
    CommentsDone =>
        LET Q == EmittedPositions(threads)
        IN /\ Len(comments) = Cardinality(Q)
           /\ \A q \in Q :
                Visible(comments[RankIn(Q, q)].comment)
                    = Visible(CommentsOf(threads[q[1]])[q[2]].content[1])

C8_Witness ==
    /\ CommentsDone
    /\ Len(comments) >= 2
    /\ \E q \in EmittedPositions(threads) : q[1] = 2
    /\ \E q \in EmittedPositions(threads) : q[1] = 1
    /\ \E t \in 1..Len(threads) :
        /\ PendingThread(threads[t])
        /\ \E c \in 1..Len(CommentsOf(threads[t])) :
            ~UserComment(CommentsOf(threads[t])[c])

\* The start line of a side of the thread context, Null when absent
SideLine(thread, side) ==
    IF thread.threadContext = Null THEN Null
    ELSE LET position == IF side = "right"
                         THEN thread.threadContext[1].rightFileStart
                         ELSE thread.threadContext[1].leftFileStart
         IN IF position = Null THEN Null ELSE position[1].line

IsCollapsed(out, content) ==
    \E off \in 0..Len(content) :
        /\ off + Len(out) <= Len(content)
        /\ \A i \in 1..off : IsBlank(content[i])
        /\ \A i \in (off + Len(out) + 1)..Len(content) : IsBlank(content[i])
        /\ \A i \in 1..Len(out) :
            out[i] = (IF content[off + i] = NL THEN " " ELSE content[off + i])

\* C10: in every emitted comment each line break of the content is replaced
\* by one space and the whitespace at both ends is removed.
C10_NewlinesReplacedAndTrimmed ==
    CommentsDone =>
        LET Q == EmittedPositions(threads)
        IN \A q \in Q :
            LET out == comments[RankIn(Q, q)].comment
                content == CommentsOf(threads[q[1]])[q[2]].content[1]
            IN /\ \A i \in 1..Len(out) : out[i] # NL
               /\ (out # <<>> => ~IsBlank(out[1]) /\ ~IsBlank(out[Len(out)]))
               /\ IsCollapsed(out, content)

C10_Witness ==
    /\ CommentsDone
    /\ \E q \in EmittedPositions(threads) :
        LET out == comments[RankIn(EmittedPositions(threads), q)].comment
            content == CommentsOf(threads[q[1]])[q[2]].content[1]
        IN /\ Len(content) >= 4
           /\ IsBlank(content[1])
           /\ content[Len(content)] = NL
           /\ \E i \in 2..(Len(content) - 1) : content[i] = NL
           /\ \E i \in 1..Len(out) : out[i] = " "
           /\ Len(out) < Len(content)

\* C29: every emitted record has a non-empty comment text; a comment whose
\* content holds only whitespace or line breaks is skipped like an empty one.
\* (Stated as claimed; the code emits such a comment as the empty text.)
C29_NoEmptyCommentText ==
    CommentsDone => \A k \in 1..Len(comments) : comments[k].comment # <<>>

(***************************************************************************)
(* extractFields / extractUS (lib/azure.js, lib/html.js) and the private   *)
(* extractFields of us2f.js                                                *)
(* A work item is [id, fields]; fields is Null (no fields object) or       *)
(* Some(map), a map from the tracker's field names to Null (absent) or     *)
(* Some(text).  A call returns a record or throws.                         *)
(***************************************************************************)
TitleField == "System.Title"

DescriptionField == "System.Description"

AcceptanceField == "Microsoft.VSTS.Common.AcceptanceCriteria"

FieldNames == {TitleField, DescriptionField, AcceptanceField}

returned(value) == [threw |-> FALSE, value |-> value]

\* f[...] on an undefined f: TypeError
threwTypeError == [threw |-> TRUE, value |-> "TypeError"]

\* f[name] || ''
fieldOrEmpty(f, name) ==
    IF f[name] = Null THEN <<>> ELSE f[name][1]

\* workItem.fields || {}
fieldsOrEmpty(item) ==
    IF item.fields = Null THEN [name \in FieldNames |-> Null]
    ELSE item.fields[1]

\* html.replace(/<[^>]*>/g, rep) from position i on
RECURSIVE replaceTags(_, _, _)
replaceTags(html, i, rep) ==
    IF i > Len(html) THEN <<>>
    ELSE LET closes == {j \in (i + 1)..Len(html) : html[j] = ">"}
         IN IF html[i] = "<" /\ closes # {}
            THEN <<rep>> \o
                 replaceTags(html,
                             (CHOOSE j \in closes : \A k \in closes : j <= k) + 1,
                             rep)
            ELSE <<html[i]>> \o replaceTags(html, i + 1, rep)

\* text.replace(/[cls]+/g, rep): every maximal run of cls becomes rep
replaceRuns(text, cls, rep) ==
    LET starts == SelectSeq([i \in 1..Len(text) |-> i],
                            LAMBDA i : \/ text[i] \notin cls
                                       \/ i = 1
                                       \/ text[i - 1] \notin cls)
    IN [k \in 1..Len(starts) |->
            IF text[starts[k]] \in cls THEN rep ELSE text[starts[k]]]

\* .replace(/<[^>]*>/g, ' ').replace(/\s+/g, ' ').trim()
tagsToSpaces(html) ==
    trim(replaceRuns(replaceTags(html, 1, " "), WhitespaceChars, " "))

\* .replace(/<[^>]*>/g, '\n').replace(/\n+/g, '\n').trim()
tagsToLines(html) ==
    trim(replaceRuns(replaceTags(html, 1, NL), {NL}, NL))

stripHtmlToText(html) == IF html = <<>> THEN <<>> ELSE tagsToSpaces(html)

stripHtmlToLines(html) == IF html = <<>> THEN <<>> ELSE tagsToLines(html)

\* lib/azure.js
extractFields(item) ==
    LET f == fieldsOrEmpty(item)
    IN returned([id |-> item.id,
                 title |-> fieldOrEmpty(f, TitleField),
                 description |-> stripHtmlToText(fieldOrEmpty(f, DescriptionField)),
                 acceptanceCriteria |->
                     stripHtmlToLines(fieldOrEmpty(f, AcceptanceField))])

\* lib/azure.js
extractUS(item) ==
    LET f == fieldsOrEmpty(item)
    IN returned([id |-> item.id,
                 title |-> fieldOrEmpty(f, TitleField),
                 ac |-> stripHtmlToLines(fieldOrEmpty(f, AcceptanceField))])

\* us2f.js: const f = workItem.fields, with no default
extractFields_us2f(item) ==
    IF item.fields = Null THEN threwTypeError
    ELSE LET f == item.fields[1]
         IN returned([id |-> item.id,
                      title |-> fieldOrEmpty(f, TitleField),
                      description |-> tagsToSpaces(fieldOrEmpty(f, DescriptionField)),
                      acceptanceCriteria |->
                          tagsToLines(fieldOrEmpty(f, AcceptanceField))])

Extractors == {"lib/azure.js extractFields", "lib/azure.js extractUS",
               "us2f.js extractFields"}

callExtractor(name, item) ==
    CASE name = "lib/azure.js extractFields" -> extractFields(item)
      [] name = "lib/azure.js extractUS" -> extractUS(item)
      [] name = "us2f.js extractFields" -> extractFields_us2f(item)

(***************************************************************************)
(* Inputs of extractFields / extractUS                                     *)
(***************************************************************************)
MaxHtmlLen == 3

HtmlAlphabet == {"<", ">", "a", " ", NL}

HtmlSamples ==
    {<<"<", "p", ">", "a", " ", " ", "b", "<", "/", "p", ">">>,
     <<"<", "d", "i", "v", ">", "1", "<", "b", "r", ">", "<", "b", "r", ">",
       "2", "<", "/", "d", "i", "v", ">">>}

HtmlTexts ==
    UNION {[1..k -> HtmlAlphabet] : k \in 0..MaxHtmlLen} \cup HtmlSamples

FieldValues == {Null} \cup {Some(t) : t \in HtmlTexts}

EmptyFieldMap == [name \in FieldNames |-> Null]

\* every value of one field, the other two absent; and all three present
FieldMaps ==
    {[EmptyFieldMap EXCEPT ![name] = v] : name \in FieldNames, v \in FieldValues}
    \cup {[name \in FieldNames |-> Some(t)] : t \in HtmlSamples}

WorkItems ==
    {[id |-> 1, fields |-> Null]} \cup
    {[id |-> 1, fields |-> Some(f)] : f \in FieldMaps}

(***************************************************************************)
(* Specification of a call of extractFields / extractUS                    *)
(***************************************************************************)
InitFields ==
    /\ pc = "fields_call"
    /\ workItem \in WorkItems
    /\ extractor \in Extractors
    /\ fieldsOutcome = <<>>
    /\ IdleExcept("fields")

CallExtractFields ==
    /\ pc = "fields_call"
    /\ fieldsOutcome' = callExtractor(extractor, workItem)
    /\ pc' = "fields_done"
    /\ UNCHANGED <<workItem, extractor>>
    /\ UnchangedExcept("fields")

NextFields == CallExtractFields

SpecFields == InitFields /\ [][NextFields]_vars

(***************************************************************************)
(* Properties of extractFields / extractUS                                 *)
(***************************************************************************)
FieldsDone == pc = "fields_done"

\* The projections of a returned record are all the empty string
AllProjectionsEmpty(value) ==
    /\ value.title = <<>>
    /\ "description" \in DOMAIN value => value.description = <<>>
    /\ "acceptanceCriteria" \in DOMAIN value => value.acceptanceCriteria = <<>>
    /\ "ac" \in DOMAIN value => value.ac = <<>>

\* C11: field extraction from a work item without a fields object does not
\* throw and returns the empty string for title, description and acceptance
\* criteria, the same record as for an item whose fields object is empty.
C11_NoFieldsObjectAsEmptyFields ==
    (FieldsDone /\ workItem.fields = Null) =>
        /\ ~fieldsOutcome.threw
        /\ AllProjectionsEmpty(fieldsOutcome.value)
        /\ fieldsOutcome =
             callExtractor(extractor, [workItem EXCEPT !.fields = Some(EmptyFieldMap)])

(***************************************************************************)
(* validateBackendOutput / validateFrontendOutput (lib/validator.js)       *)
(* An issue is its message; the returned record is [isValid, issues].      *)
(***************************************************************************)
MutationMarker ==
    <<"M", "u", "t", "a", "t", "i", "o", "n", ":">>

NameMarker ==
    <<"-", " ", "N", "a", "m", "e", ":">>

InputMarker ==
    <<"-", " ", "I", "n", "p", "u", "t", ":">>

ReturnsMarker ==
    <<"-", " ", "R", "e", "t", "u", "r", "n", "s", ":">>

BehaviorMarker ==
    <<"B", "e", "h", "a", "v", "i", "o", "r", ":">>

RulesMarker ==
    <<"R", "u", "l", "e", "s", ":">>

AcMarker ==
    <<"A", "C", ":">>

ComponentMarker ==
    <<"C", "o", "m", "p", "o", "n", "e", "n", "t", ":">>

UiElementsMarker ==
    <<"U", "I", " ", "E", "l", "e", "m", "e", "n", "t", "s", ":">>

ElementsMarker ==
    <<"E", "l", "e", "m", "e", "n", "t", "s", ":">>

InteractionsMarker ==
    <<"I", "n", "t", "e", "r", "a", "c", "t", "i", "o", "n", "s", ":">>

RecordKeyword ==
    <<"r", "e", "c", "o", "r", "d", " ">>

\* Mutant of includes: the marker is looked for at the start of the text only
includes_AtStart(text, str) == startsWithAt(text, 1, str)

\* String.prototype.includes
includes(text, str) ==
    \E pos \in 1..(Len(text) + 1) : startsWithAt(text, pos, str)

\* String.prototype.endsWith
endsWith(text, str) ==
    /\ Len(str) <= Len(text)
    /\ startsWithAt(text, Len(text) - Len(str) + 1, str)

\* if (!text.includes(m1) && !text.includes(m2)) issues.push(issue)
sectionCheck(markers, issue) == [markers |-> markers, issue |-> issue]

backendChecks ==
    << sectionCheck({MutationMarker}, "Missing \"Mutation:\" section"),
       sectionCheck({NameMarker}, "Missing \"- Name:\" in Mutation"),
       sectionCheck({InputMarker}, "Missing \"- Input:\" in Mutation"),
       sectionCheck({ReturnsMarker}, "Missing \"- Returns:\" in Mutation"),
       sectionCheck({BehaviorMarker}, "Missing \"Behavior:\" section"),
       sectionCheck({RulesMarker}, "Missing \"Rules:\" section"),
       sectionCheck({AcMarker}, "Missing \"AC:\" section") >>

frontendChecks ==
    << sectionCheck({ComponentMarker}, "Missing \"Component:\" section"),
       sectionCheck({NameMarker}, "Missing \"- Name:\" in Component"),
       sectionCheck({UiElementsMarker, ElementsMarker},
                    "Missing \"UI Elements:\" section"),
       sectionCheck({BehaviorMarker, InteractionsMarker},
                    "Missing \"Behavior:\" or \"Interactions:\" section"),
       sectionCheck({AcMarker}, "Missing \"AC:\" section") >>

\* The issues pushed by the section checks, in the order of the checks
missingIssues(text, checks) ==
    LET failed == SelectSeq(checks,
                            LAMBDA c : \A m \in c.markers : ~includes(text, m))
    IN [k \in 1..Len(failed) |-> failed[k].issue]

TruncatedIssue == "Output appears to be truncated"

IncompleteRecordIssue == "Incomplete record (missing closing parenthesis)"

\* if (text.endsWith('-') || text.endsWith(':') || text.endsWith(','))
truncationIssues(text) ==
    IF endsWith(text, <<"-">>) \/ endsWith(text, <<":">>) \/ endsWith(text, <<",">>)
    THEN <<TruncatedIssue>> ELSE <<>>

\* /record \w+\([^)]*$/gm matches at pos: 'record ', a run of word
\* characters, '(' and no ')' up to the end of some line
incompleteRecordAt(text, pos) ==
    /\ startsWithAt(text, pos, RecordKeyword)
    /\ LET first == pos + Len(RecordKeyword)
           nonWord == {j \in first..Len(text) : text[j] \notin WordChars}
       IN /\ nonWord # {}
          /\ LET paren == CHOOSE j \in nonWord : \A i \in nonWord : j <= i
             IN /\ paren > first
                /\ text[paren] = "("
                /\ \E e \in (paren + 1)..(Len(text) + 1) :
                    /\ e = Len(text) + 1 \/ text[e] = NL
                    /\ \A j \in (paren + 1)..(e - 1) : text[j] # ")"

\* const recordMatches = text.match(...); if (recordMatches) issues.push(...)
incompleteRecordIssues(text) ==
    IF \E pos \in 1..Len(text) : incompleteRecordAt(text, pos)
    THEN <<IncompleteRecordIssue>> ELSE <<>>

validationRecord(found) == [isValid |-> Len(found) = 0, issues |-> found]

validateBackendOutput(text) ==
    validationRecord(missingIssues(text, backendChecks)
                     \o truncationIssues(text)
                     \o incompleteRecordIssues(text))

validateFrontendOutput(text) ==
    validationRecord(missingIssues(text, frontendChecks)
                     \o truncationIssues(text))

Validators == {"validateBackendOutput", "validateFrontendOutput"}

callValidator(name, text) ==
    IF name = "validateBackendOutput" THEN validateBackendOutput(text)
    ELSE validateFrontendOutput(text)

(***************************************************************************)
(* Inputs of the validators: the lines of a spec in template order, any of *)
(* them left out, followed by one of the endings.                          *)
(***************************************************************************)
MutationLine ==
    <<"M", "u", "t", "a", "t", "i", "o", "n", ":">>

NameLine ==
    <<"-", " ", "N", "a", "m", "e", ":", " ", "T">>

InputLine ==
    <<"-", " ", "I", "n", "p", "u", "t", ":", " ", "x">>

ReturnsLine ==
    <<"-", " ", "R", "e", "t", "u", "r", "n", "s", ":", " ", "y">>

BehaviorLine ==
    <<"B", "e", "h", "a", "v", "i", "o", "r", ":">>

RulesLine ==
    <<"R", "u", "l", "e", "s", ":">>

AcLine ==
    <<"A", "C", ":", " ", "1">>

ComponentLine ==
    <<"C", "o", "m", "p", "o", "n", "e", "n", "t", ":">>

UiElementsLine ==
    <<"U", "I", " ", "E", "l", "e", "m", "e", "n", "t", "s", ":">>

ElementsLine ==
    <<"E", "l", "e", "m", "e", "n", "t", "s", ":">>

InteractionsLine ==
    <<"I", "n", "t", "e", "r", "a", "c", "t", "i", "o", "n", "s", ":">>

BackendLines ==
    <<MutationLine, NameLine, InputLine, ReturnsLine, BehaviorLine, RulesLine,
      AcLine>>

FrontendLines ==
    <<ComponentLine, NameLine, UiElementsLine, ElementsLine, BehaviorLine,
      InteractionsLine, AcLine>>

\* the lines of template at the positions of kept, joined by line breaks
RECURSIVE keptLines(_, _, _)
keptLines(template, kept, k) ==
    IF k > Len(template) THEN <<>>
    ELSE (IF k \in kept THEN <<template[k]>> ELSE <<>>)
         \o keptLines(template, kept, k + 1)

SpecBodies ==
    {join(keptLines(template, kept, 1)) :
        template \in {BackendLines, FrontendLines},
        kept \in SUBSET (1..Len(BackendLines))}

EndsComplete ==
    <<>>

EndsInText ==
    <<NL, "-", " ", "x">>

EndsInHyphen ==
    <<NL, "-">>

EndsInColon ==
    <<NL, "-", " ", "a", ":">>

EndsInComma ==
    <<NL, "-", " ", "a", ",">>

EndsInColonThenBreak ==
    <<NL, "-", " ", "a", ":", NL>>

EndsInCommaThenSpace ==
    <<NL, "-", " ", "a", ",", " ">>

EndsInHyphenThenTab ==
    <<NL, "-", "\t">>

EndsInTextThenBreak ==
    <<NL, "-", " ", "a", ".", NL>>

EndsInOpenRecord ==
    <<NL, "r", "e", "c", "o", "r", "d", " ", "T", "(", "a">>

EndsInClosedRecord ==
    <<NL, "r", "e", "c", "o", "r", "d", " ", "T", "(", "a", ")">>

OpenRecordClosedLater ==
    <<NL, "r", "e", "c", "o", "r", "d", " ", "T", "(", "a", NL, "-", " ",
      "b", ")">>

LowerCaseMarker ==
    <<NL, "a", "c", ":", " ", "x">>

SpecEndings ==
    {EndsComplete, EndsInText, EndsInHyphen,
     EndsInColon, EndsInComma, EndsInColonThenBreak,
     EndsInCommaThenSpace, EndsInHyphenThenTab, EndsInTextThenBreak,
     EndsInOpenRecord, EndsInClosedRecord, OpenRecordClosedLater,
     LowerCaseMarker}

SpecTexts == {body \o ending : body \in SpecBodies, ending \in SpecEndings}

(***************************************************************************)
(* Specification of a call of a validator                                  *)
(***************************************************************************)
InitValidate ==
    /\ pc = "validate_call"
    /\ validator \in Validators
    /\ specText \in SpecTexts
    /\ validation = <<>>
    /\ IdleExcept("validate")

CallValidate ==
    /\ pc = "validate_call"
    /\ validation' = callValidator(validator, specText)
    /\ pc' = "validate_done"
    /\ UNCHANGED <<validator, specText>>
    /\ UnchangedExcept("validate")

NextValidate == CallValidate

SpecValidate == InitValidate /\ [][NextValidate]_vars

(***************************************************************************)
(* Properties of the validators                                            *)
(***************************************************************************)
ValidateDone == pc = "validate_done"

\* str is a substring of text
Occurs(str, text) ==
    \E i \in 0..(Len(text) - Len(str)) : SubSeq(text, i + 1, i + Len(str)) = str

\* The required sections of a validator: the markers that satisfy the
\* section (any one of them) and the entry reported when none occurs
RequiredSections(name) ==
    IF name = "validateBackendOutput"
    THEN {[markers |-> {MutationMarker}, entry |-> "Missing \"Mutation:\" section"],
          [markers |-> {NameMarker}, entry |-> "Missing \"- Name:\" in Mutation"],
          [markers |-> {InputMarker}, entry |-> "Missing \"- Input:\" in Mutation"],
          [markers |-> {ReturnsMarker}, entry |-> "Missing \"- Returns:\" in Mutation"],
          [markers |-> {BehaviorMarker}, entry |-> "Missing \"Behavior:\" section"],
          [markers |-> {RulesMarker}, entry |-> "Missing \"Rules:\" section"],
          [markers |-> {AcMarker}, entry |-> "Missing \"AC:\" section"]}
    ELSE {[markers |-> {ComponentMarker}, entry |-> "Missing \"Component:\" section"],
          [markers |-> {NameMarker}, entry |-> "Missing \"- Name:\" in Component"],
          [markers |-> {UiElementsMarker, ElementsMarker},
           entry |-> "Missing \"UI Elements:\" section"],
          [markers |-> {BehaviorMarker, InteractionsMarker},
           entry |-> "Missing \"Behavior:\" or \"Interactions:\" section"],
          [markers |-> {AcMarker}, entry |-> "Missing \"AC:\" section"]}

MissingEntries ==
    {s.entry : s \in RequiredSections("validateBackendOutput")
                     \cup RequiredSections("validateFrontendOutput")}

CountOf(entry, list) == Cardinality({k \in 1..Len(list) : list[k] = entry})

\* C12: the validators return a record {isValid, issues} where isValid is
\* true exactly when issues is empty, and issues holds exactly one 'Missing'
\* entry for each required section none of whose markers is a substring of
\* the text, and no other 'Missing' entry.
C12_OneEntryPerMissingMarker ==
    ValidateDone =>
        /\ DOMAIN validation = {"isValid", "issues"}
        /\ validation.isValid = (validation.issues = <<>>)
        /\ \A s \in RequiredSections(validator) :
            CountOf(s.entry, validation.issues) =
                (IF \E m \in s.markers : Occurs(m, specText) THEN 0 ELSE 1)
        /\ Cardinality({k \in 1..Len(validation.issues) :
                            validation.issues[k] \in MissingEntries})
             = Cardinality({s \in RequiredSections(validator) :
                                \A m \in s.markers : ~Occurs(m, specText)})

C12_Witness ==
    /\ ValidateDone
    /\ \E s \in RequiredSections(validator) :
        /\ CountOf(s.entry, validation.issues) = 1
        /\ Cardinality(s.markers) = 2
    /\ \E s \in RequiredSections(validator) :
        /\ CountOf(s.entry, validation.issues) = 0
        /\ ~Occurs(MutationMarker, specText)
    /\ ~validation.isValid

\* The last character of text that is not whitespace, Null when there is none
LastVisible(text) ==
    LET shown == {j \in 1..Len(text) : text[j] \notin {" ", NL, "\t", "\r"}}
    IN IF shown = {} THEN Null
       ELSE Some(text[CHOOSE j \in shown : \A i \in shown : j >= i])

\* C13: the truncation issue is reported exactly when the last non-whitespace
\* character of the text is a hyphen, a colon or a comma, also when
\* whitespace or a line break follows that character.
C13_TruncatedIffLastVisibleIsPunctuation ==
    ValidateDone =>
        (CountOf("Output appears to be truncated", validation.issues) > 0
            <=> LastVisible(specText) \in {Some("-"), Some(":"), Some(",")})

(***************************************************************************)
(* cleanOutputBackend / cleanOutputFrontend (lib/cleaner.js)               *)
(* The backtick is the one-symbol string "<tick>".                         *)
(***************************************************************************)
UI_KEYWORDS ==
    { <<"c", "l", "i", "c", "k">>,
      <<"b", "u", "t", "t", "o", "n">>,
      <<"m", "o", "d", "a", "l">>,
      <<"i", "c", "o", "n">>,
      <<"d", "i", "s", "p", "l", "a", "y">>,
      <<"s", "h", "o", "w">>,
      <<"f", "i", "g", "m", "a">>,
      <<"t", "a", "b">>,
      <<"s", "c", "r", "o", "l", "l">>,
      <<"v", "i", "e", "w">>,
      <<"d", "i", "s", "a", "b", "l", "e", "d">>,
      <<"e", "n", "a", "b", "l", "e", "d">>,
      <<"v", "i", "s", "i", "b", "l", "e">>,
      <<"h", "i", "d", "d", "e", "n">>,
      <<"s", "c", "r", "e", "e", "n">>,
      <<"p", "a", "g", "e">>,
      <<"n", "a", "v", "i", "g", "a", "t", "e">>,
      <<"h", "o", "v", "e", "r">>,
      <<"d", "r", "o", "p", "d", "o", "w", "n">>,
      <<"p", "o", "p", "u", "p">>,
      <<"t", "o", "o", "l", "t", "i", "p">> }

BACKEND_KEYWORDS ==
    { <<"d", "a", "t", "a", "b", "a", "s", "e">>,
      <<"s", "q", "l">>,
      <<"r", "e", "p", "o", "s", "i", "t", "o", "r", "y">>,
      <<"e", "n", "t", "i", "t", "y", " ", "f", "r", "a", "m", "e", "w", "o", "r", "k">>,
      <<"m", "i", "g", "r", "a", "t", "i", "o", "n">>,
      <<"d", "b", "c", "o", "n", "t", "e", "x", "t">>,
      <<"c", "o", "n", "n", "e", "c", "t", "i", "o", "n", " ", "s", "t", "r", "i", "n", "g">>,
      <<"s", "t", "o", "r", "e", "d", " ", "p", "r", "o", "c", "e", "d", "u", "r", "e">> }

\* (Here is|Here's|The following|Below is|I've extracted)
PreamblePhrases ==
    { <<"H", "e", "r", "e", " ", "i", "s">>,
      <<"H", "e", "r", "e", "'", "s">>,
      <<"T", "h", "e", " ", "f", "o", "l", "l", "o", "w", "i", "n", "g">>,
      <<"B", "e", "l", "o", "w", " ", "i", "s">>,
      <<"I", "'", "v", "e", " ", "e", "x", "t", "r", "a", "c", "t", "e", "d">> }

UpperCaseLetters ==
    <<"A", "B", "C", "D", "E", "F", "G", "H", "I", "J", "K", "L", "M", "N",
      "O", "P", "Q", "R", "S", "T", "U", "V", "W", "X", "Y", "Z">>

LowerCaseLetters ==
    <<"a", "b", "c", "d", "e", "f", "g", "h", "i", "j", "k", "l", "m", "n",
      "o", "p", "q", "r", "s", "t", "u", "v", "w", "x", "y", "z">>

Fence ==
    <<"<tick>", "<tick>", "<tick>">>

lowerCaseMap ==
    [ch \in {UpperCaseLetters[k] : k \in 1..Len(UpperCaseLetters)} |->
        LowerCaseLetters[CHOOSE k \in 1..Len(UpperCaseLetters) :
                             UpperCaseLetters[k] = ch]]

lowerCaseOf(ch) ==
    IF ch \in DOMAIN lowerCaseMap THEN lowerCaseMap[ch] ELSE ch

\* String.prototype.toLowerCase
toLowerCase(str) == [i \in 1..Len(str) |-> lowerCaseOf(str[i])]

\* Mutant of lineHasKeyword: the line is compared as it is
lineHasKeyword_CaseSensitive(line, keywords) ==
    \E kw \in keywords : includes(line, kw)

\* keywords.some(kw => line.toLowerCase().includes(kw))
lineHasKeyword(line, keywords) ==
    LET lower == toLowerCase(line)
    IN \E kw \in keywords : includes(lower, kw)

\* The position after the run of characters of cls that starts at pos
afterRun(text, pos, cls) ==
    LET stops == {j \in pos..Len(text) : text[j] \notin cls}
    IN IF stops = {} THEN Len(text) + 1
       ELSE CHOOSE j \in stops : \A i \in stops : j <= i

\* text.replace(/^(Here is|...)[^\n]*\n*/gi, ''): without the m flag ^ is
\* the start of the text, so at most one match
removePreamble(text) ==
    IF \E p \in PreamblePhrases :
          startsWithAt(toLowerCase(text), 1, toLowerCase(p))
    THEN LET p == CHOOSE q \in PreamblePhrases :
                      startsWithAt(toLowerCase(text), 1, toLowerCase(q))
             lineEnd == afterRun(text, Len(p) + 1, {c \in {text[j] : j \in 1..Len(text)} : c # NL})
             rest == afterRun(text, lineEnd, {NL})
         IN SubSeq(text, rest, Len(text))
    ELSE text

LowerCaseSet == {LowerCaseLetters[k] : k \in 1..Len(LowerCaseLetters)}

LetterSet == LowerCaseSet \cup {UpperCaseLetters[k] : k \in 1..Len(UpperCaseLetters)}

\* /```[a-z]*\s*```/ at pos: the position after the match, 0 when none
emptyBlockEnd(text, pos) ==
    IF ~startsWithAt(text, pos, Fence) THEN 0
    ELSE LET close == afterRun(text, afterRun(text, pos + 3, LowerCaseSet),
                               WhitespaceChars)
         IN IF startsWithAt(text, close, Fence) THEN close + 3 ELSE 0

\* /```[a-z]*\n?/i at pos: the position after the match, 0 when none
fenceMarkerEnd(text, pos) ==
    IF ~startsWithAt(text, pos, Fence) THEN 0
    ELSE LET after == afterRun(text, pos + 3, LetterSet)
         IN IF after <= Len(text) /\ text[after] = NL THEN after + 1 ELSE after

\* /```/ at pos
bareFenceEnd(text, pos) ==
    IF startsWithAt(text, pos, Fence) THEN pos + 3 ELSE 0

matchEnd(kind, text, pos) ==
    CASE kind = "emptyBlock" -> emptyBlockEnd(text, pos)
      [] kind = "fenceMarker" -> fenceMarkerEnd(text, pos)
      [] kind = "bareFence" -> bareFenceEnd(text, pos)

\* The positions covered by the matches of text.replace(/.../g, '') that
\* start at pos or later: the leftmost match, then the matches after it
RECURSIVE matchedPositions(_, _, _)
matchedPositions(kind, text, pos) ==
    LET starts == {p \in pos..Len(text) : matchEnd(kind, text, p) > 0}
    IN IF starts = {} THEN {}
       ELSE LET first == CHOOSE p \in starts : \A q \in starts : p <= q
                after == matchEnd(kind, text, first)
            IN (first..(after - 1)) \cup matchedPositions(kind, text, after)

\* text.replace(/.../g, ''): the characters outside the matches
removeAll(kind, text, pos) ==
    LET gone == matchedPositions(kind, text, pos)
        kept == SelectSeq([i \in 1..Len(text) |-> i], LAMBDA i : i \notin gone)
    IN [k \in 1..Len(kept) |-> text[kept[k]]]

removePreambleAndCodeBlocks(text) ==
    removeAll("bareFence",
              removeAll("fenceMarker",
                        removeAll("emptyBlock", removePreamble(text), 1), 1), 1)

filterKeywords(text, keywords) ==
    trim(join(SelectSeq(split(text), LAMBDA line : ~lineHasKeyword(line, keywords))))

cleanOutputBackend(text) ==
    filterKeywords(removePreambleAndCodeBlocks(text), UI_KEYWORDS)

cleanOutputFrontend(text) ==
    filterKeywords(removePreambleAndCodeBlocks(text), BACKEND_KEYWORDS)

Cleaners == {"cleanOutputBackend", "cleanOutputFrontend"}

callCleaner(name, text) ==
    IF name = "cleanOutputBackend" THEN cleanOutputBackend(text)
    ELSE cleanOutputFrontend(text)

(***************************************************************************)
(* Inputs of the cleaners: an opening, up to MaxRawLines lines and a       *)
(* closing                                                                 *)
(***************************************************************************)
MaxRawLines == 3

CleanLine ==
    <<"M", "u", "t", "a", "t", "i", "o", "n", ":">>

UiLine ==
    <<"-", " ", "C", "l", "i", "c", "k", " ", "S", "a", "v", "e">>

BothLine ==
    <<"-", " ", "a", " ", "d", "a", "t", "a", "b", "a", "s", "e">>

BlankLine ==
    <<>>

IndentedLine ==
    <<" ", " ", "-", " ", "x">>

BackendLine ==
    <<"-", " ", "S", "Q", "L", " ", "x", " ">>

RawLineSamples ==
    {CleanLine, UiLine, BothLine, BlankLine, IndentedLine, BackendLine}

NoOpening ==
    <<>>

PreambleOpening ==
    <<"h", "e", "r", "e", " ", "I", "S", " ", "x", ":", NL, NL>>

FenceOpening ==
    <<"<tick>", "<tick>", "<tick>", "c", "s", "h", "a", "r", "p", NL>>

EmptyBlockOpening ==
    <<"<tick>", "<tick>", "<tick>", "j", "s", " ", NL, "<tick>", "<tick>", "<tick>", NL>>

NoClosing ==
    <<>>

FenceClosing ==
    <<NL, "<tick>", "<tick>", "<tick>">>

RawOpenings == {NoOpening, PreambleOpening, FenceOpening, EmptyBlockOpening}

RawClosings == {NoClosing, FenceClosing}

RawTexts ==
    {open \o join(body) \o close :
        open \in RawOpenings,
        body \in UNION {[1..k -> RawLineSamples] : k \in 0..MaxRawLines},
        close \in RawClosings}

(***************************************************************************)
(* Specification of a call of a cleaner                                    *)
(***************************************************************************)
InitClean ==
    /\ pc = "clean_call"
    /\ cleaner \in Cleaners
    /\ rawText \in RawTexts
    /\ cleanResult = <<>>
    /\ IdleExcept("clean")

CallClean ==
    /\ pc = "clean_call"
    /\ cleanResult' = callCleaner(cleaner, rawText)
    /\ pc' = "clean_done"
    /\ UNCHANGED <<cleaner, rawText>>
    /\ UnchangedExcept("clean")

NextClean == CallClean

SpecClean == InitClean /\ [][NextClean]_vars

(***************************************************************************)
(* Properties of the cleaners                                              *)
(***************************************************************************)
CleanDone == pc = "clean_done"

ExcludedTerms(name) ==
    IF name = "cleanOutputBackend" THEN UI_KEYWORDS ELSE BACKEND_KEYWORDS

\* line contains term, compared case-insensitively (the terms are in lower
\* case)
ContainsTerm(line, term) ==
    LET folded == [i \in 1..Len(line) |-> lowerCaseOf(line[i])]
    IN Occurs(term, folded)

TermFree(line, terms) ==
    LET folded == [i \in 1..Len(line) |-> lowerCaseOf(line[i])]
    IN \A term \in terms : ~Occurs(term, folded)

\* The lines of the preamble- and fence-stripped text without an excluded term
TermFreeLines ==
    SelectSeq(split(removePreambleAndCodeBlocks(rawText)),
              LAMBDA line : TermFree(line, ExcludedTerms(cleaner)))

RECURSIVE IsSubsequenceFrom(_, _, _, _)
IsSubsequenceFrom(a, i, b, j) ==
    IF i > Len(a) THEN TRUE
    ELSE IF j > Len(b) THEN FALSE
    ELSE IF a[i] = b[j] THEN IsSubsequenceFrom(a, i + 1, b, j + 1)
    ELSE IsSubsequenceFrom(a, i, b, j + 1)

NoTermInResult ==
    \A k \in 1..Len(split(cleanResult)) :
        TermFree(split(cleanResult)[k], ExcludedTerms(cleaner))

\* C14 as stated: no line of the result contains an excluded term, and every
\* line of the stripped text without such a term is kept, in its order.
C14_TermFreeLinesAllKept ==
    CleanDone =>
        /\ NoTermInResult
        /\ IsSubsequenceFrom(TermFreeLines, 1, split(cleanResult), 1)

\* C14 (amended): no line of the result contains an excluded term, and the
\* result is the lines of the stripped text without such a term, in their
\* order, joined by line breaks, minus the whitespace at its two ends: blank
\* lines at the beginning and at the end are dropped and the first and last
\* remaining lines lose their outer whitespace.
C14_TermFreeLinesKeptUpToTrim ==
    CleanDone =>
        /\ NoTermInResult
        /\ cleanResult = trim(join(TermFreeLines))

C14_Witness ==
    /\ CleanDone
    /\ Len(TermFreeLines) < Len(split(removePreambleAndCodeBlocks(rawText)))
    /\ Len(split(cleanResult)) < Len(TermFreeLines)
    /\ Len(cleanResult) > 0
    /\ rawText # removePreambleAndCodeBlocks(rawText)

(***************************************************************************)
(* compileToSpec (us2b, us2f): one LLM call, cleaning, validation, then a  *)
(* stand-in AC line, one retry, or the return.  The position pc is         *)
(* "compile_call" before an LLM call is issued, "compile_await" while it   *)
(* is awaited, "compile_returned" or "compile_threw" at the end.           *)
(***************************************************************************)
\* The characters of the issue messages
issueText(issue) ==
    CASE issue = "Missing \"Mutation:\" section" ->
           <<"M", "i", "s", "s", "i", "n", "g", " ", "\"", "M", "u", "t", "a", "t", "i", "o", "n", ":", "\"", " ", "s", "e", "c", "t", "i", "o", "n">>
      [] issue = "Missing \"- Name:\" in Mutation" ->
           <<"M", "i", "s", "s", "i", "n", "g", " ", "\"", "-", " ", "N", "a", "m", "e", ":", "\"", " ", "i", "n", " ", "M", "u", "t", "a", "t", "i", "o", "n">>
      [] issue = "Missing \"- Input:\" in Mutation" ->
           <<"M", "i", "s", "s", "i", "n", "g", " ", "\"", "-", " ", "I", "n", "p", "u", "t", ":", "\"", " ", "i", "n", " ", "M", "u", "t", "a", "t", "i", "o", "n">>
      [] issue = "Missing \"- Returns:\" in Mutation" ->
           <<"M", "i", "s", "s", "i", "n", "g", " ", "\"", "-", " ", "R", "e", "t", "u", "r", "n", "s", ":", "\"", " ", "i", "n", " ", "M", "u", "t", "a", "t", "i", "o", "n">>
      [] issue = "Missing \"Behavior:\" section" ->
           <<"M", "i", "s", "s", "i", "n", "g", " ", "\"", "B", "e", "h", "a", "v", "i", "o", "r", ":", "\"", " ", "s", "e", "c", "t", "i", "o", "n">>
      [] issue = "Missing \"Rules:\" section" ->
           <<"M", "i", "s", "s", "i", "n", "g", " ", "\"", "R", "u", "l", "e", "s", ":", "\"", " ", "s", "e", "c", "t", "i", "o", "n">>
      [] issue = "Missing \"AC:\" section" ->
           <<"M", "i", "s", "s", "i", "n", "g", " ", "\"", "A", "C", ":", "\"", " ", "s", "e", "c", "t", "i", "o", "n">>
      [] issue = "Missing \"Component:\" section" ->
           <<"M", "i", "s", "s", "i", "n", "g", " ", "\"", "C", "o", "m", "p", "o", "n", "e", "n", "t", ":", "\"", " ", "s", "e", "c", "t", "i", "o", "n">>
      [] issue = "Missing \"- Name:\" in Component" ->
           <<"M", "i", "s", "s", "i", "n", "g", " ", "\"", "-", " ", "N", "a", "m", "e", ":", "\"", " ", "i", "n", " ", "C", "o", "m", "p", "o", "n", "e", "n", "t">>
      [] issue = "Missing \"UI Elements:\" section" ->
           <<"M", "i", "s", "s", "i", "n", "g", " ", "\"", "U", "I", " ", "E", "l", "e", "m", "e", "n", "t", "s", ":", "\"", " ", "s", "e", "c", "t", "i", "o", "n">>
      [] issue = "Missing \"Behavior:\" or \"Interactions:\" section" ->
           <<"M", "i", "s", "s", "i", "n", "g", " ", "\"", "B", "e", "h", "a", "v", "i", "o", "r", ":", "\"", " ", "o", "r", " ", "\"", "I", "n", "t", "e", "r", "a", "c", "t", "i", "o", "n", "s", ":", "\"", " ", "s", "e", "c", "t", "i", "o", "n">>
      [] issue = "Output appears to be truncated" ->
           <<"O", "u", "t", "p", "u", "t", " ", "a", "p", "p", "e", "a", "r", "s", " ", "t", "o", " ", "b", "e", " ", "t", "r", "u", "n", "c", "a", "t", "e", "d">>
      [] issue = "Incomplete record (missing closing parenthesis)" ->
           <<"I", "n", "c", "o", "m", "p", "l", "e", "t", "e", " ", "r", "e", "c", "o", "r", "d", " ", "(", "m", "i", "s", "s", "i", "n", "g", " ", "c", "l", "o", "s", "i", "n", "g", " ", "p", "a", "r", "e", "n", "t", "h", "e", "s", "i", "s", ")">>

TruncatedWord ==
    <<"t", "r", "u", "n", "c", "a", "t", "e", "d">>

IncompleteWord ==
    <<"i", "n", "c", "o", "m", "p", "l", "e", "t", "e">>

StandInAc ==
    <<NL, NL, "A", "C", ":", " ", "(", "v", "e", "r", "i", "f", "y", " ",
      "m", "a", "n", "u", "a", "l", "l", "y", ")">>

MissingAcIssue == "Missing \"AC:\" section"

\* Mutant of onlyAcMissing: the AC issue is among the issues
onlyAcMissing_AmongOthers(v) ==
    \E k \in 1..Len(v.issues) : v.issues[k] = MissingAcIssue

\* validation.issues.length === 1 && validation.issues[0] === 'Missing "AC:" section'
onlyAcMissing(v) ==
    Len(v.issues) = 1 /\ v.issues[1] = MissingAcIssue

\* validation.issues.some(i => i.includes('truncated') || i.includes('incomplete'))
someRetryIssue(v) ==
    \E k \in 1..Len(v.issues) :
        \/ includes(issueText(v.issues[k]), TruncatedWord)
        \/ includes(issueText(v.issues[k]), IncompleteWord)

\* Mutant of retries: the retry count is not looked at
retries_Unbounded(v, count) ==
    ~v.isValid /\ ~onlyAcMissing(v) /\ someRetryIssue(v)

\* The else-if branch is taken
retries(v, count) ==
    ~v.isValid /\ ~onlyAcMissing(v) /\ someRetryIssue(v) /\ count < 1

\* result after the if: result += '\n\nAC: (verify manually)' in the first branch
patchedResult(text, v) ==
    IF ~v.isValid /\ onlyAcMissing(v) THEN text \o StandInAc ELSE text

Compilers == {"us2b", "us2f"}

\* cleanOutputBackend / cleanOutputFrontend (us2f.js: cleanOutput)
cleanFor(name, content) ==
    IF name = "us2b" THEN cleanOutputBackend(content)
    ELSE cleanOutputFrontend(content)

\* validateBackendOutput / validateFrontendOutput (us2f.js: validateOutput)
validateFor(name, text) ==
    IF name = "us2b" THEN validateBackendOutput(text)
    ELSE validateFrontendOutput(text)

(***************************************************************************)
(* The contents the LLM may return                                         *)
(***************************************************************************)
MaxLlmCalls == 3

AcLineWithUiWord ==
    <<"A", "C", ":", " ", "v", "i", "e", "w", " ", "1">>

\* A backend spec without its AC line
BackendNoAc ==
    join(<<MutationLine, NameLine, InputLine, ReturnsLine, BehaviorLine,
           RulesLine>>) \o EndsInText

\* A frontend spec without its AC line
FrontendNoAc ==
    join(<<ComponentLine, NameLine, UiElementsLine, BehaviorLine,
           InteractionsLine>>) \o EndsInText

LlmContents ==
    { join(BackendLines),
      FenceOpening \o join(BackendLines) \o FenceClosing,
      BackendNoAc,
      BackendNoAc \o <<NL>> \o AcLineWithUiWord,
      join(BackendLines) \o EndsInColon,
      join(BackendLines) \o EndsInColonThenBreak,
      BackendNoAc \o EndsInComma,
      join(BackendLines) \o EndsInOpenRecord,
      BackendNoAc \o EndsInOpenRecord,
      join(<<MutationLine, NameLine, BehaviorLine, AcLine>>),
      join(FrontendLines),
      FrontendNoAc,
      FrontendNoAc \o EndsInHyphen,
      join(FrontendLines) \o EndsInColon,
      FrontendNoAc \o EndsInComma,
      PreambleOpening \o join(FrontendLines),
      join(<<NameLine, BehaviorLine, AcLine>>) }

(***************************************************************************)
(* Specification of an invocation of compileToSpec                         *)
(***************************************************************************)
InitCompile ==
    /\ pc = "compile_call"
    /\ compiler \in Compilers
    /\ retryCount = 0
    /\ llmCalls = 0
    /\ cleaned = <<>>
    /\ validations = <<>>
    /\ compileReturn = Null
    /\ IdleExcept("compile")

\* await callGroq(...) is reached: the request is sent
IssueLlmCall ==
    /\ pc = "compile_call"
    /\ llmCalls < MaxLlmCalls
    /\ llmCalls' = llmCalls + 1
    /\ pc' = "compile_await"
    /\ UNCHANGED <<compiler, retryCount, cleaned, validations, compileReturn>>
    /\ UnchangedExcept("compile")

\* The awaited call resolves with content: clean, validate, then patch,
\* retry or return
LlmReturns ==
    /\ pc = "compile_await"
    /\ \E content \in LlmContents :
        LET text == cleanFor(compiler, content)
            v == validateFor(compiler, text)
        IN /\ cleaned' = Append(cleaned, text)
           /\ validations' = Append(validations, v)
           /\ IF retries(v, retryCount)
              THEN /\ retryCount' = retryCount + 1
                   /\ pc' = "compile_call"
                   /\ UNCHANGED compileReturn
              ELSE /\ compileReturn' =
                        Some([result |-> patchedResult(text, v), validation |-> v])
                   /\ pc' = "compile_returned"
                   /\ UNCHANGED retryCount
    /\ UNCHANGED <<compiler, llmCalls>>
    /\ UnchangedExcept("compile")

\* The awaited call rejects (non-success status, network error, timeout,
\* no content): the error leaves compileToSpec
LlmFails ==
    /\ pc = "compile_await"
    /\ pc' = "compile_threw"
    /\ UNCHANGED <<compiler, retryCount, llmCalls, cleaned, validations,
                   compileReturn>>
    /\ UnchangedExcept("compile")

NextCompile == IssueLlmCall \/ LlmFails \/ LlmReturns

SpecCompile == InitCompile /\ [][NextCompile]_vars

\* An awaited LLM call resolves or rejects
SpecCompileFair == SpecCompile /\ WF_vars(NextCompile)

(***************************************************************************)
(* Properties of compileToSpec                                             *)
(***************************************************************************)
CompileReturned == pc = "compile_returned"

CompileThrew == pc = "compile_threw"

\* The replies received so far
Replies == Len(cleaned)

CompileBounded ==
    /\ llmCalls <= 2
    /\ Replies <= llmCalls
    /\ (CompileThrew => Replies = llmCalls - 1)
    /\ (Replies < llmCalls => pc \in {"compile_await", "compile_threw"})

HasIssue(v, issue) == \E k \in 1..Len(v.issues) : v.issues[k] = issue

\* The issues of v include one of the truncation class or of the
\* incomplete-construct class, and v is not the lone missing AC section
RetryClass(v) ==
    /\ \/ HasIssue(v, "Output appears to be truncated")
       \/ HasIssue(v, "Incomplete record (missing closing parenthesis)")
    /\ v.issues # <<"Missing \"AC:\" section">>

\* C16: the single retry is issued exactly when the first cleaned output
\* fails validation with an issue of the truncation or incomplete-construct
\* class; in every other case the first output is returned without a second
\* LLM call.
C16_RetryIffTruncatedOrIncomplete ==
    Replies >= 1 =>
        IF RetryClass(validations[1])
        THEN ~(CompileReturned /\ llmCalls = 1)
        ELSE /\ llmCalls = 1
             /\ CompileReturned
             /\ compileReturn[1].result \in
                    {cleaned[1], cleaned[1] \o StandInAc}

LastValidation == validations[Len(validations)]

LastCleaned == cleaned[Len(cleaned)]

\* C17: when the only issue of a cleaned output is the missing AC section,
\* compileToSpec returns that output followed by the stand-in AC line, with
\* no further LLM call, so that the returned text contains 'AC:'; with any
\* other set of issues the returned text is the cleaned output as it is.
C17_StandInOnlyForLoneMissingAc ==
    /\ Replies >= 1 /\ LastValidation.issues = <<MissingAcIssue>> =>
        /\ CompileReturned
        /\ llmCalls = Replies
        /\ compileReturn[1].result = LastCleaned \o StandInAc
        /\ Occurs(AcMarker, compileReturn[1].result)
    /\ CompileReturned /\ LastValidation.issues # <<MissingAcIssue>> =>
        compileReturn[1].result = LastCleaned

C17_Witness ==
    /\ CompileReturned
    /\ llmCalls = 2
    /\ LastValidation.issues = <<MissingAcIssue>>
    /\ HasIssue(validations[1], MissingAcIssue)
    /\ Len(validations[1].issues) > 1

\* C30: the validation record returned by compileToSpec describes the text
\* returned with it: isValid is false and 'Missing "AC:" section' is listed
\* only if the returned text lacks the 'AC:' marker, also after the stand-in
\* AC line was appended and after a retry.
C30_ValidationDescribesReturnedText ==
    CompileReturned =>
        LET r == compileReturn[1] IN
        (~r.validation.isValid /\ HasIssue(r.validation, MissingAcIssue))
            => ~Occurs(AcMarker, r.result)

(***************************************************************************)
(* extractDiffContent                                                      *)
(* A change c is the record of c.item?.path (Null when the item or its     *)
(* path is missing) and c.changeType.  A request of getFileAtCommit is the *)
(* record of the file's position and the commit it reads.                  *)
(***************************************************************************)
DIFF_LIMITS_MAX_FILES == 8

DIFF_LIMITS_MAX_LINES_NEW_FILE == 100

DIFF_LIMITS_MAX_CONTEXT_LINES == 3

\* Mutant of filesToProcess: the cap on the file count is forgotten
filesToProcess_NoCap(files) == files

\* codeFiles.slice(0, DIFF_LIMITS.MAX_FILES)
filesToProcess(files) == slice(files, DIFF_LIMITS_MAX_FILES)

\* newContent.split('\n').slice(0, DIFF_LIMITS.MAX_LINES_NEW_FILE)
addedFileLines(content) == slice(split(content), DIFF_LIMITS_MAX_LINES_NEW_FILE)

\* lines.map((l, i) => `+${i + 1}|${l}`).join('\n')
addedFileDiff(content) ==
    LET lines == addedFileLines(content)
    IN join([i \in 1..Len(lines) |-> renderLine("+", i - 1, lines[i])])

\* (fileDiff.match(/^\+/gm) || []).length, for texts whose only line
\* terminator is the line feed
countAddedLines(fileDiff) ==
    LET lines == split(fileDiff)
    IN Cardinality({k \in 1..Len(lines) : startsWithAt(lines[k], 1, <<"+">>)})

\* `\n### ${path}\n```\n${fileDiff}\n```\n`
fileBlock(path, fileDiff) ==
    <<NL, "#", "#", "#", " ">> \o path \o <<NL>> \o Fence \o <<NL>>
        \o fileDiff \o <<NL>> \o Fence \o <<NL>>

\* if (fileDiff) { diffContent += ... }
appendBlock(content, path, fileDiff) ==
    IF fileDiff = <<>> THEN content ELSE content \o fileBlock(path, fileDiff)

\* The request getFileAtCommit sends for the file at position i
fileRequest(i, commit) == [file |-> i, commit |-> commit]

(***************************************************************************)
(* Inputs: the lists of changes and the contents the server returns        *)
(***************************************************************************)
MaxCodeFiles == 9

\* The path of the change listed at position i
pathOfFile(i) == <<"/", "f">> \o numberToString(i)

ChangeKinds == {"add", "edit", "nopath"}

changeOf(i, kind) ==
    [path |-> IF kind = "nopath" THEN Null ELSE Some(pathOfFile(i)),
     changeType |-> IF kind = "add" THEN "add" ELSE "edit"]

\* Every listing of at most two changes
ShortListings ==
    {[i \in 1..Len(kinds) |-> changeOf(i, kinds[i])] :
        kinds \in UNION {[1..m -> ChangeKinds] : m \in 0..2}}

ListingPatterns == {<<"add">>, <<"edit", "nopath", "add">>}

\* Listings at and beyond the cap on the file count
LongListings ==
    {[i \in 1..n |-> changeOf(i, p[((i - 1) % Len(p)) + 1])] :
        p \in ListingPatterns, n \in DIFF_LIMITS_MAX_FILES..MaxCodeFiles}

CodeFileListings == ShortListings \cup LongListings

\* httpGetText at the source commit: null on a non-success status, or the body
SourceContents == {Null, Some(<<>>), Some(<<"a">>), Some(<<"b">>)}

\* httpGetText at the target commit
TargetContents == {Null, Some(<<"a">>)}

(***************************************************************************)
(* Specification of a call of extractDiffContent                           *)
(***************************************************************************)
InitFiles ==
    /\ pc = "files_loop"
    /\ codeFiles \in CodeFileListings
    /\ fileIndex = 1
    /\ fileNewContent = Null
    /\ diffContent = <<>>
    /\ addedLines = 0
    /\ pendingCalls = {}
    /\ issuedCalls = <<>>
    /\ IdleExcept("files")

CurrentFile == filesToProcess(codeFiles)[fileIndex]

InLoop == pc = "files_loop" /\ fileIndex <= Len(filesToProcess(codeFiles))

\* if (!path) continue
SkipFileWithoutPath ==
    /\ InLoop
    /\ CurrentFile.path = Null
    /\ fileIndex' = fileIndex + 1
    /\ UNCHANGED <<pc, codeFiles, fileNewContent, diffContent, addedLines,
                   pendingCalls, issuedCalls>>
    /\ UnchangedExcept("files")

\* await getFileAtCommit(..., sourceCommit, path, ...) is reached
FetchNewContent ==
    /\ InLoop
    /\ CurrentFile.path # Null
    /\ pendingCalls' = pendingCalls \cup {fileRequest(fileIndex, "source")}
    /\ issuedCalls' = Append(issuedCalls, fileRequest(fileIndex, "source"))
    /\ pc' = "files_await_new"
    /\ UNCHANGED <<codeFiles, fileIndex, fileNewContent, diffContent, addedLines>>
    /\ UnchangedExcept("files")

\* The request at the source commit settles with newContent: the file is
\* skipped, its block is appended, or the request at the target commit is sent
NewContentArrives ==
    /\ pc = "files_await_new"
    /\ \E content \in SourceContents :
        LET settled == pendingCalls \ {fileRequest(fileIndex, "source")}
        IN IF isFalsyString(content)
           THEN /\ pendingCalls' = settled
                /\ fileIndex' = fileIndex + 1
                /\ pc' = "files_loop"
                /\ UNCHANGED <<fileNewContent, diffContent, addedLines, issuedCalls>>
           ELSE IF CurrentFile.changeType = "add"
           THEN /\ pendingCalls' = settled
                /\ diffContent' = appendBlock(diffContent, CurrentFile.path[1],
                                              addedFileDiff(content[1]))
                /\ addedLines' = addedLines + Len(addedFileLines(content[1]))
                /\ fileIndex' = fileIndex + 1
                /\ pc' = "files_loop"
                /\ UNCHANGED <<fileNewContent, issuedCalls>>
           ELSE /\ fileNewContent' = content
                /\ pendingCalls' = settled \cup {fileRequest(fileIndex, "target")}
                /\ issuedCalls' = Append(issuedCalls, fileRequest(fileIndex, "target"))
                /\ pc' = "files_await_old"
                /\ UNCHANGED <<fileIndex, diffContent, addedLines>>
    /\ UNCHANGED codeFiles
    /\ UnchangedExcept("files")

\* The request at the target commit settles with oldContent
OldContentArrives ==
    /\ pc = "files_await_old"
    /\ \E content \in TargetContents :
        LET fileDiff == extractChangedLines(content, fileNewContent[1],
                                            DIFF_LIMITS_MAX_CONTEXT_LINES)
        IN /\ diffContent' = appendBlock(diffContent, CurrentFile.path[1], fileDiff)
           /\ addedLines' = addedLines + countAddedLines(fileDiff)
    /\ pendingCalls' = pendingCalls \ {fileRequest(fileIndex, "target")}
    /\ fileNewContent' = Null
    /\ fileIndex' = fileIndex + 1
    /\ pc' = "files_loop"
    /\ UNCHANGED <<codeFiles, issuedCalls>>
    /\ UnchangedExcept("files")

\* The awaited request rejects (network error or timeout): the error leaves
\* extractDiffContent
FileFetchFails ==
    /\ pc \in {"files_await_new", "files_await_old"}
    /\ pendingCalls' = pendingCalls \ {fileRequest(fileIndex, "source"),
                                       fileRequest(fileIndex, "target")}
    /\ pc' = "files_threw"
    /\ UNCHANGED <<codeFiles, fileIndex, fileNewContent, diffContent, addedLines,
                   issuedCalls>>
    /\ UnchangedExcept("files")

\* return { diffContent, addedLines }
ReturnDiffContent ==
    /\ pc = "files_loop"
    /\ fileIndex > Len(filesToProcess(codeFiles))
    /\ pc' = "files_returned"
    /\ UNCHANGED <<codeFiles, fileIndex, fileNewContent, diffContent, addedLines,
                   pendingCalls, issuedCalls>>
    /\ UnchangedExcept("files")

NextFiles ==
    \/ SkipFileWithoutPath
    \/ FetchNewContent
    \/ NewContentArrives
    \/ OldContentArrives
    \/ FileFetchFails
    \/ ReturnDiffContent

SpecFiles == InitFiles /\ [][NextFiles]_vars

(***************************************************************************)
(* Properties of extractDiffContent                                        *)
(***************************************************************************)
FilesReturned == pc = "files_returned"

\* The positions of the files requests were sent for, in sending order
RequestedFiles == [k \in 1..Len(issuedCalls) |-> issuedCalls[k].file]

RequestsOf(i) == {k \in 1..Len(issuedCalls) : issuedCalls[k].file = i}

\* The "### path" lines of diffContent, in order
BlockHeaders ==
    LET IsHeader(l) == startsWithAt(l, 1, <<"#", "#", "#", " ">>)
    IN SelectSeq(split(diffContent), IsHeader)

\* The listing positions whose path a header line names
HeaderFiles(h) ==
    {i \in 1..Len(codeFiles) : codeFiles[i].path = Some(SubSeq(h, 5, Len(h)))}

\* C18: no two requests are in flight at once; requests are sent file by file
\* in listing order, for at most 8 files among the first 8 of the listing, at
\* most two per file; the file blocks of diffContent appear in listing order
C18_OneCallAtATimeInListingOrder ==
    /\ Cardinality(pendingCalls) <= 1
    /\ \A k \in 1..(Len(issuedCalls) - 1) : RequestedFiles[k] <= RequestedFiles[k + 1]
    /\ \A k \in 1..Len(issuedCalls) :
        /\ RequestedFiles[k] <= DIFF_LIMITS_MAX_FILES
        /\ Cardinality(RequestsOf(RequestedFiles[k])) <= 2
    /\ \A k \in 1..Len(BlockHeaders) : HeaderFiles(BlockHeaders[k]) # {}
    /\ \A k \in 1..(Len(BlockHeaders) - 1) :
        \A i \in HeaderFiles(BlockHeaders[k]), j \in HeaderFiles(BlockHeaders[k + 1]) :
            i < j

\* A listing longer than the cap was processed to the end: some file took two
\* requests and diffContent holds several blocks
C18_Witness ==
    /\ FilesReturned
    /\ Len(codeFiles) > DIFF_LIMITS_MAX_FILES
    /\ \E k \in 1..Len(issuedCalls) : Cardinality(RequestsOf(RequestedFiles[k])) = 2
    /\ Len(BlockHeaders) >= 2

(***************************************************************************)
(* External calls: fetchWithTimeout, httpGet, httpGetText, httpPost and    *)
(* the adapters over them.  What an adapter hands to its caller is the     *)
(* record of kind ("returned" or "threw"), tag (the shape of the value or  *)
(* the cause of the error) and the status and body it carries.             *)
(***************************************************************************)
Resolved(tag, status, body) ==
    [kind |-> "returned", tag |-> tag, status |-> status, body |-> body]

Rejected(tag, status, body) ==
    [kind |-> "threw", tag |-> tag, status |-> status, body |-> body]

Adapters ==
    {"httpGet", "httpGetText", "httpPost", "getPullRequest", "getFileAtCommit",
     "callGroq", "getWorkItemWithRelations", "getPRWorkItems", "getCurrentUser",
     "createTask", "fetchFigmaContent"}

\* The function that sends the request of an adapter
helperOf(a) ==
    CASE a \in {"httpGet", "getPullRequest", "getWorkItemWithRelations",
                "getPRWorkItems", "getCurrentUser"} -> "httpGet"
      [] a \in {"httpGetText", "getFileAtCommit"} -> "httpGetText"
      [] a \in {"httpPost", "callGroq"} -> "httpPost"
      [] a \in {"createTask", "fetchFigmaContent"} -> "fetch"

\* const timeout = setTimeout(() => controller.abort(), timeoutMs): only the
\* requests sent through fetchWithTimeout have a timer
armsTimer(a) == helperOf(a) # "fetch"

\* res.ok
isOk(status) == status \in 200..299

\* res.json() resolves: the body is JSON
jsonParses(body) == body \in {"{}", "{content}"}

\* data?.choices?.[0]?.message?.content is truthy
hasContent(body) == body = "{content}"

\* httpGetText: return res.ok ? res.text() : null -- the body of a
\* non-success response is not read
readsBody(a, status) == helperOf(a) # "httpGetText" \/ isOk(status)

\* if (!res.ok) { const text = await res.text(); throw new Error(`HTTP
\* ${res.status}: ${text}`) } return res.json()
jsonOrThrow(status, body) ==
    IF ~isOk(status) THEN Rejected("status", Some(status), Some(body))
    ELSE IF jsonParses(body) THEN Resolved("data", Null, Some(body))
    ELSE Rejected("syntax", Null, Null)

\* What the code after `await fetch` makes of the body, before any catch
afterBody(a, status, body) ==
    IF helperOf(a) = "httpGetText" THEN Resolved("data", Null, Some(body))
    ELSE IF a = "fetchFigmaContent" /\ ~isOk(status)
    THEN Resolved("failure", Some(status), Some(body))
    ELSE jsonOrThrow(status, body)

\* Mutant of catchesErrors: the try/catch is missing
catchesErrors_Never(a) == FALSE

\* The adapters whose request is inside a try/catch
catchesErrors(a) ==
    a \in {"getWorkItemWithRelations", "getPRWorkItems", "getCurrentUser",
           "fetchFigmaContent"}

\* What the catch block returns
fallbackOf(a) ==
    CASE a = "getPRWorkItems" -> Resolved("[]", Null, Null)
      [] a = "fetchFigmaContent" -> Resolved("failure", Null, Null)
      [] OTHER -> Resolved("null", Null, Null)

\* The adapter around its helper: the catch block, and callGroq's check of
\* the content
adapterResult(a, r) ==
    IF r.kind = "threw"
    THEN IF catchesErrors(a) THEN fallbackOf(a) ELSE r
    ELSE IF a = "callGroq" /\ ~hasContent(r.body[1])
    THEN Rejected("invalid", Null, Null)
    ELSE r

(***************************************************************************)
(* Inputs: what the server answers                                         *)
(***************************************************************************)
ResponseStatuses == {200, 401, 404, 500}

ResponseBodies == {"{}", "{content}", "Not found"}

(***************************************************************************)
(* Specification of one external call.  The server may answer, fail or     *)
(* stay silent at every step; only the timer is the program's.             *)
(***************************************************************************)
InitCalls ==
    /\ pc = "call_start"
    /\ adapter \in Adapters
    /\ timerArmed = FALSE
    /\ response = Null
    /\ callFailure = "none"
    /\ callOutcome = Null
    /\ exitCode = Null
    /\ IdleExcept("calls")

\* The adapter settles with r
settles(r) ==
    /\ callOutcome' = Some(r)
    /\ pc' = IF r.kind = "threw" THEN "call_threw" ELSE "call_returned"

\* setTimeout(...); await fetch(url, {...options, signal}) is reached
SendRequest ==
    /\ pc = "call_start"
    /\ timerArmed' = armsTimer(adapter)
    /\ pc' = "call_fetching"
    /\ UNCHANGED <<adapter, response, callFailure, callOutcome, exitCode>>
    /\ UnchangedExcept("calls")

\* fetch resolves with the Response; finally { clearTimeout(timeout) }
HeadersArrive ==
    /\ pc = "call_fetching"
    /\ \E status \in ResponseStatuses :
        /\ response' = Some(status)
        /\ callFailure' = IF isOk(status) THEN "none" ELSE "status"
        /\ IF readsBody(adapter, status)
           THEN pc' = "call_reading" /\ UNCHANGED callOutcome
           ELSE settles(adapterResult(adapter, Resolved("null", Null, Null)))
    /\ timerArmed' = FALSE
    /\ UNCHANGED <<adapter, exitCode>>
    /\ UnchangedExcept("calls")

\* fetch rejects with a network error; finally { clearTimeout(timeout) }
FetchRejects ==
    /\ pc = "call_fetching"
    /\ callFailure' = "network"
    /\ settles(adapterResult(adapter, Rejected("network", Null, Null)))
    /\ timerArmed' = FALSE
    /\ UNCHANGED <<adapter, response, exitCode>>
    /\ UnchangedExcept("calls")

\* The timer fires: controller.abort() makes the pending fetch reject
TimeoutFires ==
    /\ timerArmed
    /\ pc = "call_fetching"
    /\ callFailure' = "timeout"
    /\ settles(adapterResult(adapter, Rejected("timeout", Null, Null)))
    /\ timerArmed' = FALSE
    /\ UNCHANGED <<adapter, response, exitCode>>
    /\ UnchangedExcept("calls")

\* await res.text() or res.json() settles with the whole body
BodyArrives ==
    /\ pc = "call_reading"
    /\ \E body \in ResponseBodies :
        settles(adapterResult(adapter, afterBody(adapter, response[1], body)))
    /\ UNCHANGED <<adapter, timerArmed, response, callFailure, exitCode>>
    /\ UnchangedExcept("calls")

\* The connection breaks while the body is read: res.text() or res.json()
\* rejects, whatever the status was
BodyReadRejects ==
    /\ pc = "call_reading"
    /\ callFailure' = "network"
    /\ settles(adapterResult(adapter, Rejected("network", Null, Null)))
    /\ UNCHANGED <<adapter, timerArmed, response, exitCode>>
    /\ UnchangedExcept("calls")

\* catch (e) { console.error(...); process.exit(1) } of the command's main
TopLevelHandler ==
    /\ pc = "call_threw"
    /\ exitCode' = Some(1)
    /\ pc' = "call_exited"
    /\ UNCHANGED <<adapter, timerArmed, response, callFailure, callOutcome>>
    /\ UnchangedExcept("calls")

NextCalls ==
    \/ SendRequest
    \/ HeadersArrive
    \/ FetchRejects
    \/ TimeoutFires
    \/ BodyArrives
    \/ BodyReadRejects
    \/ TopLevelHandler

SpecCalls == InitCalls /\ [][NextCalls]_vars

(***************************************************************************)
(* Properties of the external calls                                        *)
(***************************************************************************)
CallInFlight == pc \in {"call_fetching", "call_reading"}

CallSettled == pc \in {"call_returned", "call_threw", "call_exited"}

\* C19: every external call is covered by its timeout for as long as it is
\* in flight, the reading of the response body included
C19_InFlightCallHasTimer == CallInFlight => timerArmed

CatchingAdapters ==
    {"getWorkItemWithRelations", "getPRWorkItems", "getCurrentUser",
     "fetchFigmaContent"}

TextAdapters == {"httpGetText", "getFileAtCommit"}

prfixThreadIsPending_ActiveStringOnly(thread) ==
    thread.status # Null /\ strictEquals(thread.status[1], JStr("active"))

\* !(thread.status === 'fixed' || thread.status === 'closed')
prfixThreadIsPending(thread) ==
    \/ thread.status = Null
    \/ /\ ~strictEquals(thread.status[1], JStr("fixed"))
       /\ ~strictEquals(thread.status[1], JStr("closed"))

\* One iteration of the outer loop of prfix.js
prfixThreadComments(thread) ==
    IF threadIsDeleted(thread) THEN <<>>
    ELSE IF ~prfixThreadIsPending(thread) THEN <<>>
    ELSE commentsLoop(IF thread.comments = Null THEN <<>> ELSE thread.comments[1],
                      1, threadFilePath(thread), threadLine(thread))

\* The outer loop of prfix.js over threads from position k
RECURSIVE prfixThreadsLoop(_, _)
prfixThreadsLoop(list, k) ==
    IF k > Len(list) THEN <<>>
    ELSE prfixThreadComments(list[k]) \o prfixThreadsLoop(list, k + 1)

prfixExtractPendingComments(list) == prfixThreadsLoop(list, 1)

(***************************************************************************)
(* Specification: both functions are called on the same threads            *)
(***************************************************************************)
InitPolicies ==
    /\ pc = "policies"
    /\ policyThreads \in ThreadLists
    /\ strictComments = Null
    /\ permissiveComments = Null
    /\ IdleExcept("policies")

CallLibraryExtractPendingComments ==
    /\ pc = "policies"
    /\ strictComments = Null
    /\ strictComments' = Some(extractPendingComments(policyThreads))
    /\ UNCHANGED <<pc, policyThreads, permissiveComments>>
    /\ UnchangedExcept("policies")

CallPrfixExtractPendingComments ==
    /\ pc = "policies"
    /\ permissiveComments = Null
    /\ permissiveComments' = Some(prfixExtractPendingComments(policyThreads))
    /\ UNCHANGED <<pc, policyThreads, strictComments>>
    /\ UnchangedExcept("policies")

NextPolicies ==
    CallLibraryExtractPendingComments \/ CallPrfixExtractPendingComments

SpecPolicies == InitPolicies /\ [][NextPolicies]_vars

(***************************************************************************)
(* Properties of the two policies                                          *)
(***************************************************************************)
BothPoliciesDone == strictComments # Null /\ permissiveComments # Null

\* Every thread that is not deleted has one of the four statuses
OnlyKnownStatuses(list) ==
    \A k \in 1..Len(list) :
        threadIsDeleted(list[k]) \/
        list[k].status \in {Some(JStr("active")), Some(JNum(1)),
                            Some(JStr("fixed")), Some(JStr("closed"))}

\* C28: on every thread list the output of the library's policy (status
\* 'active' or 1) is a subsequence of the output of the policy of prfix.js
\* (everything not 'fixed' or 'closed'), and the two are equal whenever every
\* thread that is not deleted has a status among 'active', 1, 'fixed', 'closed'
C28_StrictWithinPermissive ==
    BothPoliciesDone =>
        /\ IsSubsequenceFrom(strictComments[1], 1, permissiveComments[1], 1)
        /\ OnlyKnownStatuses(policyThreads) =>
               strictComments[1] = permissiveComments[1]

\* Two threads, one kept by both policies and one kept by prfix.js only
C28_Witness ==
    /\ BothPoliciesDone
    /\ Len(strictComments[1]) >= 1
    /\ Len(permissiveComments[1]) > Len(strictComments[1])
    /\ ~OnlyKnownStatuses(policyThreads)

(***************************************************************************)
(* Command-line arguments of the commands                                  *)
(* An argument is Null when process.argv has no such entry, else Some of   *)
(* its text.  NaN is Null, a number n is Some(n).                          *)
(***************************************************************************)
\* The white space parseInt skips at the front of its argument
IsWhiteSpace(c) == c \in {" ", "\t", "\n"}

\* The position of the first character of value from k on that is no white space
RECURSIVE skipWhiteSpace(_, _)
skipWhiteSpace(value, k) ==
    IF k <= Len(value) /\ IsWhiteSpace(value[k])
    THEN skipWhiteSpace(value, k + 1) ELSE k

\* The position after the last digit of the run of digits that starts at k
RECURSIVE digitRunEnd(_, _)
digitRunEnd(value, k) ==
    IF k <= Len(value) /\ IsDigit(value[k])
    THEN digitRunEnd(value, k + 1) ELSE k

\* parseInt(value, 10): white space, an optional sign, then the longest run
\* of decimal digits; NaN when that run is empty
parseIntRadix10(value) ==
    LET s == skipWhiteSpace(value, 1)
        signed == s <= Len(value) /\ value[s] \in {"+", "-"}
        d == IF signed THEN s + 1 ELSE s
        e == digitRunEnd(value, d)
    IN  IF e = d THEN Null
        ELSE LET n == parseInt(SubSeq(value, d, e - 1))
             IN  Some(IF signed /\ value[s] = "-" THEN 0 - n ELSE n)

\* isNaN(id) || id <= 0
isInvalidId(id) == IF id = Null THEN TRUE ELSE id[1] <= 0

\* validateNumericId(value, name): the status of process.exit(1), or the
\* number returned
validateNumericId(value) ==
    LET id == parseIntRadix10(value)
    IN  IF isInvalidId(id) THEN [exit |-> Some(1), id |-> Null]
        ELSE [exit |-> Null, id |-> id]

\* !arg of an argument: absent, or the empty text
isFalsyArg(arg) == IF arg = Null THEN TRUE ELSE arg[1] = <<>>

\* The commands whose main calls validateNumericId on process.argv[2]
ValidatingCommands == {"us2b", "us2f", "us2check", "prfix", "prreview"}

\* The commands whose main gives process.argv[2] to the network call as it is
RawIdCommands == {"us2task", "us2validate"}

Commands == ValidatingCommands \cup RawIdCommands

\* The test before the usage text: !id, and for us2task also
\* !type || !['be', 'fe'].includes(type)
printsUsage(cmd, id, type) ==
    IF isFalsyArg(id) THEN TRUE
    ELSE IF cmd # "us2task" THEN FALSE
    ELSE IF isFalsyArg(type) THEN TRUE
    ELSE toLowerCase(type[1]) \notin {<<"b", "e">>, <<"f", "e">>}

(***************************************************************************)
(* Argument texts                                                          *)
(***************************************************************************)
MaxArgLen == 3

ArgChars == {"0", "1", "7", "a", "-", " ", "."}

ArgTexts == UNION {[1..n -> ArgChars] : n \in 0..MaxArgLen}

IdArgs == {Null} \cup {Some(t) : t \in ArgTexts}

TypeArgs == {Null, Some(<<"b", "e">>), Some(<<"F", "E">>), Some(<<"q", "a">>)}

(***************************************************************************)
(* Specification: one command up to its first network call                 *)
(***************************************************************************)
InitCli ==
    /\ pc = "cli_start"
    /\ command \in Commands
    /\ idArg \in IdArgs
    /\ typeArg \in (IF command = "us2task" THEN TypeArgs ELSE {Null})
    /\ cliId = Null
    /\ cliExit = Null
    /\ requestedId = Null
    /\ IdleExcept("cli")

\* The usage text is printed, process.exit(1)
UsageExit ==
    /\ pc = "cli_start"
    /\ printsUsage(command, idArg, typeArg)
    /\ cliExit' = Some(1)
    /\ pc' = "cli_exited"
    /\ UNCHANGED <<command, idArg, typeArg, cliId, requestedId>>
    /\ UnchangedExcept("cli")

\* const id = validateNumericId(argv[2], ...)
CallValidateNumericId ==
    /\ pc = "cli_start"
    /\ ~printsUsage(command, idArg, typeArg)
    /\ command \in ValidatingCommands
    /\ LET r == validateNumericId(idArg[1])
       IN  /\ cliId' = r.id
           /\ cliExit' = r.exit
           /\ pc' = IF r.exit = Null THEN "cli_try" ELSE "cli_exited"
    /\ UNCHANGED <<command, idArg, typeArg, requestedId>>
    /\ UnchangedExcept("cli")

\* us2task and us2validate go from the usage test to the try block
EnterTryWithRawId ==
    /\ pc = "cli_start"
    /\ ~printsUsage(command, idArg, typeArg)
    /\ command \in RawIdCommands
    /\ pc' = "cli_try"
    /\ UNCHANGED <<command, idArg, typeArg, cliId, cliExit, requestedId>>
    /\ UnchangedExcept("cli")

\* The first await of the try block: the request carries `${id}`, or the
\* argument itself in us2task and us2validate
FirstNetworkCall ==
    /\ pc = "cli_try"
    /\ requestedId' = IF command \in ValidatingCommands
                      THEN Some(numberToString(cliId[1]))
                      ELSE idArg
    /\ pc' = "cli_fetching"
    /\ UNCHANGED <<command, idArg, typeArg, cliId, cliExit>>
    /\ UnchangedExcept("cli")

NextCli ==
    UsageExit \/ CallValidateNumericId \/ EnterTryWithRawId \/ FirstNetworkCall

SpecCli == InitCli /\ [][NextCli]_vars

(***************************************************************************)
(* Properties of the arguments                                             *)
(***************************************************************************)
\* The text is a positive decimal integer: digits only, not all of them 0
IsPositiveDecimal(t) ==
    /\ Len(t) >= 1
    /\ \A k \in 1..Len(t) : IsDigit(t[k])
    /\ \E k \in 1..Len(t) : t[k] # "0"

NetworkCallIssued == requestedId # Null

\* C21: for every command that takes a work-item or pull-request id, a
\* missing id or an id argument that is not a positive decimal integer makes
\* the command exit with a non-zero status before any network call is
\* issued; when validateNumericId returns, its result is a positive integer.
C21_BadIdExitsBeforeNetwork ==
    /\ (idArg = Null \/ ~IsPositiveDecimal(idArg[1])) =>
        /\ ~NetworkCallIssued
        /\ pc \in {"cli_start", "cli_exited"}
        /\ pc = "cli_exited" => cliExit # Null /\ cliExit[1] # 0
    /\ cliId # Null => cliId[1] \in Nat \ {0}

(***************************************************************************)
(* findParentUserStory                                                     *)
(* A work item is the record of its System.WorkItemType and its relations  *)
(* (Null when it has none); a relation is the record of rel and of the id  *)
(* its url ends with (Null when url is absent or ends with '/').           *)
(***************************************************************************)
WORK_ITEM_TYPES_TASK == "Task"

PARENT_WORK_ITEM_TYPES == {"User Story", "Product Backlog Item", "Bug"}

AZURE_RELATIONS_PARENT == "System.LinkTypes.Hierarchy-Reverse"

\* wi.relations.find(r => r.rel === AZURE_RELATIONS.PARENT): Null when no
\* relation from position k on is a parent relation
RECURSIVE findParentRel(_, _)
findParentRel(relations, k) ==
    IF k > Len(relations) THEN Null
    ELSE IF relations[k].rel = AZURE_RELATIONS_PARENT THEN Some(relations[k])
    ELSE findParentRel(relations, k + 1)

\* Lines 35-41: the id to fetch, Null when the function returns null before
\* any fetch
parentIdOf(wi) ==
    IF wi.relations = Null THEN Null
    ELSE LET parentRel == findParentRel(wi.relations[1], 1)
         IN  IF parentRel = Null THEN Null ELSE parentRel[1].target

\* Lines 46-56 on the fetched parent: "return" it, "recurse" on it, or "null"
afterParentFetch(parentWi) ==
    IF parentWi.type \in PARENT_WORK_ITEM_TYPES THEN "return"
    ELSE IF parentWi.type = WORK_ITEM_TYPES_TASK THEN "recurse"
    ELSE "null"

(***************************************************************************)
(* Relation graphs                                                         *)
(***************************************************************************)
MaxItems == 3

ItemIds == 1..MaxItems

ParentRel(id) == [rel |-> AZURE_RELATIONS_PARENT, target |-> id]

ChildRel(id) == [rel |-> "System.LinkTypes.Hierarchy-Forward", target |-> Some(id)]

RelationLists ==
    {Null, Some(<<>>), Some(<<ParentRel(Null)>>)}
    \cup {Some(<<ParentRel(Some(p))>>) : p \in ItemIds}
    \cup {Some(<<ChildRel(1), ParentRel(Some(p))>>) : p \in ItemIds}

ItemTypes == {"Task", "User Story", "Epic"}

LinkedWorkItems == [type : ItemTypes, relations : RelationLists]

RelationGraphs == [ItemIds -> LinkedWorkItems]

(***************************************************************************)
(* Specification: one call of findParentUserStory                          *)
(***************************************************************************)
InitParent ==
    /\ pc = "parent_call"
    /\ relationGraph \in RelationGraphs
    /\ parentWiArg \in ItemIds
    /\ parentFetch = Null
    /\ parentReturn = Null
    /\ IdleExcept("parent")

\* Lines 35-41: no relations, no parent relation or no id in its url
ReturnNullWithoutFetch ==
    /\ pc = "parent_call"
    /\ parentIdOf(relationGraph[parentWiArg]) = Null
    /\ parentReturn' = Some(0)
    /\ pc' = "parent_returned"
    /\ UNCHANGED <<relationGraph, parentWiArg, parentFetch>>
    /\ UnchangedExcept("parent")

\* Line 43: await getWorkItemWithRelations(baseUrl, authHeader, parentId, ...)
FetchParent ==
    /\ pc = "parent_call"
    /\ parentIdOf(relationGraph[parentWiArg]) # Null
    /\ parentFetch' = parentIdOf(relationGraph[parentWiArg])
    /\ pc' = "parent_await"
    /\ UNCHANGED <<relationGraph, parentWiArg, parentReturn>>
    /\ UnchangedExcept("parent")

\* getWorkItemWithRelations catches the failure of httpGet and gives null;
\* line 44
ParentFetchFails ==
    /\ pc = "parent_await"
    /\ parentFetch' = Null
    /\ parentReturn' = Some(0)
    /\ pc' = "parent_returned"
    /\ UNCHANGED <<relationGraph, parentWiArg>>
    /\ UnchangedExcept("parent")

\* Lines 46-50 and 56: the parent is returned, or null for a parent that is
\* neither of a parent type nor a Task
ParentFetchSettles ==
    /\ pc = "parent_await"
    /\ afterParentFetch(relationGraph[parentFetch[1]]) # "recurse"
    /\ parentReturn' =
           IF afterParentFetch(relationGraph[parentFetch[1]]) = "return"
           THEN parentFetch ELSE Some(0)
    /\ parentFetch' = Null
    /\ pc' = "parent_returned"
    /\ UNCHANGED <<relationGraph, parentWiArg>>
    /\ UnchangedExcept("parent")

\* Lines 52-54: return findParentUserStory(parentWi, ...)
RecurseOnParentTask ==
    /\ pc = "parent_await"
    /\ afterParentFetch(relationGraph[parentFetch[1]]) = "recurse"
    /\ parentWiArg' = parentFetch[1]
    /\ parentFetch' = Null
    /\ pc' = "parent_call"
    /\ UNCHANGED <<relationGraph, parentReturn>>
    /\ UnchangedExcept("parent")

NextParent ==
    \/ ReturnNullWithoutFetch
    \/ FetchParent
    \/ ParentFetchFails
    \/ ParentFetchSettles
    \/ RecurseOnParentTask

SpecParent == InitParent /\ [][NextParent]_vars

\* Every step of the function is taken in the end: the request settles (it
\* carries a timeout) and the continuation runs
SpecParentFair == SpecParent /\ WF_vars(NextParent)

(***************************************************************************)
(* Properties of findParentUserStory                                       *)
(***************************************************************************)
ParentReturned == pc = "parent_returned"

\* C22: findParentUserStory terminates for every relation graph, also a
\* cyclic one: after a bounded number of fetches it returns a parent work
\* item or null.
C22_FindParentTerminates == <>ParentReturned

(***************************************************************************)
(* The confirmation prompts of prreview and us2task                        *)
(***************************************************************************)
\* askQuestion: resolve(answer.trim().toLowerCase())
askQuestion(typed) == toLowerCase(trim(typed))

\* Mutant of isYes: everything but 'n' and 'no' confirms
isYes_AllButNo(answer) == answer \notin {<<"n">>, <<"n", "o">>}

\* answer === 'y' || answer === 'yes'
isYes(answer) == answer = <<"y">> \/ answer = <<"y", "e", "s">>

\* answer === 'n' || answer === 'no'
isNo(answer) == answer = <<"n">> \/ answer = <<"n", "o">>

\* answer === 'edit'
isEdit(answer) == answer = <<"e", "d", "i", "t">>

\* The title after the edit branch: unchanged for a blank newTitle, else the
\* trimmed newTitle, behind `[${typeLabel}] ` unless it starts with [BE] or [FE]
editedTitle(title, newTitle, label) ==
    IF trim(newTitle) = <<>> THEN title
    ELSE IF ~startsWithAt(newTitle, 1, <<"[", "B", "E", "]">>)
            /\ ~startsWithAt(newTitle, 1, <<"[", "F", "E", "]">>)
         THEN <<"[">> \o label \o <<"]", " ">> \o trim(newTitle)
         ELSE trim(newTitle)

(***************************************************************************)
(* What the user types                                                     *)
(***************************************************************************)
MaxPrompts == 3

TypedAnswers ==
    {<<"y">>,
     <<" ", "Y">>,
     <<"Y", "E", "S">>,
     <<"y", "e", "s", " ">>,
     <<"n">>,
     <<"N", "o">>,
     <<"e", "d", "i", "t">>,
     <<"E", "d", "i", "t", " ">>,
     <<>>,
     <<"x">>,
     <<"y", "e">>}

TypedTitles ==
    {<<>>,
     <<" ", " ">>,
     <<" ", "F", "i", "x">>,
     <<"[", "B", "E", "]", " ", "X">>,
     <<"[", "F", "E", "]", " ", "y", " ">>}

GeneratedTitle == <<"[", "B", "E", "]", " ", "T">>

(***************************************************************************)
(* Specification: a command from its confirmation prompt on                *)
(***************************************************************************)
InitConfirm ==
    /\ pc = "confirm_ask"
    /\ confirmCommand \in {"prreview", "us2task"}
    /\ typeLabel \in (IF confirmCommand = "us2task"
                      THEN {<<"B", "E">>, <<"F", "E">>} ELSE {<<>>})
    /\ answers = <<>>
    /\ taskTitle = (IF confirmCommand = "us2task" THEN GeneratedTitle ELSE <<>>)
    /\ trackerWrites = 0
    /\ confirmExit = Null
    /\ IdleExcept("confirm")

\* prreview: const answer = await askQuestion('  Publish to PR? (y/n): ') and
\* the if / else after it, up to the call of publishReview
AnswerPublishPrompt ==
    /\ pc = "confirm_ask"
    /\ confirmCommand = "prreview"
    /\ \E typed \in TypedAnswers :
        LET answer == askQuestion(typed) IN
        /\ answers' = Append(answers, answer)
        /\ IF isYes(answer)
           THEN /\ trackerWrites' = trackerWrites + 1
                /\ pc' = "confirm_write"
           ELSE /\ trackerWrites' = trackerWrites
                /\ pc' = "confirm_done"
    /\ UNCHANGED <<confirmCommand, typeLabel, taskTitle, confirmExit>>
    /\ UnchangedExcept("confirm")

\* us2task: one turn of while (!confirmed) up to its next await, and for
\* 'y' / 'yes' the call of createTask after the loop
AnswerCreatePrompt ==
    /\ pc = "confirm_ask"
    /\ confirmCommand = "us2task"
    /\ Len(answers) < MaxPrompts
    /\ \E typed \in TypedAnswers :
        LET answer == askQuestion(typed) IN
        /\ answers' = Append(answers, answer)
        /\ IF isYes(answer)
           THEN /\ trackerWrites' = trackerWrites + 1
                /\ confirmExit' = confirmExit
                /\ pc' = "confirm_write"
           ELSE IF isNo(answer)
           THEN /\ trackerWrites' = trackerWrites
                /\ confirmExit' = Some(0)
                /\ pc' = "confirm_done"
           ELSE /\ trackerWrites' = trackerWrites
                /\ confirmExit' = confirmExit
                /\ pc' = IF isEdit(answer) THEN "confirm_title"
                         ELSE "confirm_ask"
    /\ UNCHANGED <<confirmCommand, typeLabel, taskTitle>>
    /\ UnchangedExcept("confirm")

\* us2task: const newTitle = await askQuestion(...) and the rest of the
\* edit branch
AnswerTitlePrompt ==
    /\ pc = "confirm_title"
    /\ \E typed \in TypedTitles :
        taskTitle' = editedTitle(taskTitle, askQuestion(typed), typeLabel)
    /\ pc' = "confirm_ask"
    /\ UNCHANGED <<confirmCommand, typeLabel, answers, trackerWrites, confirmExit>>
    /\ UnchangedExcept("confirm")

\* publishReview / createTask returns, or throws into the catch of main
\* (process.exit(1))
WriteSettles ==
    /\ pc = "confirm_write"
    /\ confirmExit' \in {Null, Some(1)}
    /\ pc' = "confirm_done"
    /\ UNCHANGED <<confirmCommand, typeLabel, answers, taskTitle, trackerWrites>>
    /\ UnchangedExcept("confirm")

NextConfirm ==
    \/ AnswerPublishPrompt
    \/ AnswerCreatePrompt
    \/ AnswerTitlePrompt
    \/ WriteSettles

SpecConfirm == InitConfirm /\ [][NextConfirm]_vars

(***************************************************************************)
(* Properties of the confirmation prompts                                  *)
(***************************************************************************)
YesAnswers == {<<"y">>, <<"y", "e", "s">>}

NoAnswers == {<<"n">>, <<"n", "o">>}

\* C23: no write to the issue tracker is issued unless the answer to the
\* confirmation prompt was 'y' or 'yes': prreview posts nothing after any
\* other answer, and us2task creates no task after 'n' / 'no' (it exits with
\* status 0) nor after any other answer until a 'y' / 'yes' is given.
C23_WritesOnlyAfterYes ==
    /\ trackerWrites > 0 =>
        /\ Len(answers) >= 1
        /\ answers[Len(answers)] \in YesAnswers
    /\ (Len(answers) >= 1 /\ answers[Len(answers)] \notin YesAnswers) =>
        trackerWrites = 0
    /\ \A k \in 1..Len(answers) :
        answers[k] \in NoAnswers /\ confirmCommand = "us2task" =>
            /\ k = Len(answers)
            /\ trackerWrites = 0
            /\ confirmExit = Some(0)
            /\ pc = "confirm_done"
    /\ (confirmCommand = "prreview" /\ Len(answers) >= 1
            /\ answers[1] \notin YesAnswers) =>
        pc = "confirm_done" /\ trackerWrites = 0

\* us2task creates the task at the third prompt, after an answer that is
\* none of the known ones and after an edit of the title
C23_Witness ==
    /\ confirmCommand = "us2task"
    /\ Len(answers) = 3
    /\ answers[1] \notin (YesAnswers \cup NoAnswers \cup {<<"e", "d", "i", "t">>})
    /\ answers[2] = <<"e", "d", "i", "t">>
    /\ taskTitle # GeneratedTitle
    /\ trackerWrites = 1

(***************************************************************************)
(* publishReview                                                           *)
(* An issue is the record of its fileName; a POST of the log is the record *)
(* of its kind, the position of its issue (0 for the general comment) and  *)
(* its outcome.                                                            *)
(***************************************************************************)
\* change.item?.path || ''
changePath(change) == IF change = Null THEN <<>> ELSE change[1]

\* findFileInfo: the path of the first change from position k on whose path
\* ends with or includes fileName, Null when there is none
RECURSIVE findFileInfo(_, _, _)
findFileInfo(changes, fileName, k) ==
    IF k > Len(changes) THEN Null
    ELSE IF \/ endsWith(changePath(changes[k]), fileName)
            \/ includes(changePath(changes[k]), fileName)
         THEN Some(changePath(changes[k]))
         ELSE findFileInfo(changes, fileName, k + 1)

\* Mutant of countSkipped: the issue is not counted
countSkipped_NotCounted(counts) == counts

\* result.lineComments.skipped++
countSkipped(counts) == [counts EXCEPT !.skipped = @ + 1]

\* result.lineComments.success++
countSuccess(counts) == [counts EXCEPT !.success = @ + 1]

GeneralPost == [kind |-> "general", issue |-> 0, outcome |-> "pending"]

LinePost(k) == [kind |-> "line", issue |-> k, outcome |-> "pending"]

\* The log with the outcome of its last POST set
settled(log, outcome) == [log EXCEPT ![Len(log)].outcome = outcome]

(***************************************************************************)
(* Parsed issues and changes                                               *)
(***************************************************************************)
MaxIssues == 3

IssueFileNames == {<<"A", ".", "c", "s">>, <<"B", ".", "j", "s">>, <<"C", ".", "t", "s">>}

IssueLists ==
    UNION {[1..n -> [fileName : IssueFileNames]] : n \in 0..MaxIssues}

ChangeLists ==
    {<<>>,
     <<Null, Some(<<"/", "s", "r", "c", "/", "A", ".", "c", "s">>)>>,
     <<Some(<<"/", "B", ".", "j", "s">>), Some(<<"/", "x", "/", "A", ".", "c", "s", ".", "b", "a", "k">>), Some(<<"/", "s", "r", "c", "/", "A", ".", "c", "s">>)>>}

(***************************************************************************)
(* Specification: one call of publishReview                                *)
(***************************************************************************)
InitPublish ==
    /\ pc = "publish_call"
    /\ publishIssues \in IssueLists
    /\ publishChanges \in ChangeLists
    /\ issueIndex = 0
    /\ postLog = <<>>
    /\ lineComments = [success |-> 0, skipped |-> 0]
    /\ publishReturn = Null
    /\ IdleExcept("publish")

\* await postGeneralComment(...): the request is sent
PostGeneralComment ==
    /\ pc = "publish_call"
    /\ postLog' = Append(postLog, GeneralPost)
    /\ pc' = "publish_general_await"
    /\ UNCHANGED <<publishIssues, publishChanges, issueIndex, lineComments, publishReturn>>
    /\ UnchangedExcept("publish")

\* postGeneralComment rejects: publishReview rejects with it
GeneralPostFails ==
    /\ pc = "publish_general_await"
    /\ postLog' = settled(postLog, "failed")
    /\ pc' = "publish_threw"
    /\ UNCHANGED <<publishIssues, publishChanges, issueIndex, lineComments, publishReturn>>
    /\ UnchangedExcept("publish")

\* postGeneralComment resolves; lines 36-39: the loop starts at the first
\* issue (with no issue the loop is over at once)
GeneralPostSucceeds ==
    /\ pc = "publish_general_await"
    /\ postLog' = settled(postLog, "ok")
    /\ issueIndex' = 1
    /\ pc' = "publish_loop"
    /\ UNCHANGED <<publishIssues, publishChanges, lineComments, publishReturn>>
    /\ UnchangedExcept("publish")

\* Lines 60-63: findFileInfo gives null
SkipUnmatchedIssue ==
    /\ pc = "publish_loop"
    /\ issueIndex <= Len(publishIssues)
    /\ findFileInfo(publishChanges, publishIssues[issueIndex].fileName, 1) = Null
    /\ lineComments' = countSkipped(lineComments)
    /\ issueIndex' = issueIndex + 1
    /\ UNCHANGED <<pc, publishIssues, publishChanges, postLog, publishReturn>>
    /\ UnchangedExcept("publish")

\* Lines 45-53: await postLineComment(...): the request is sent
PostLineComment ==
    /\ pc = "publish_loop"
    /\ issueIndex <= Len(publishIssues)
    /\ findFileInfo(publishChanges, publishIssues[issueIndex].fileName, 1) # Null
    /\ postLog' = Append(postLog, LinePost(issueIndex))
    /\ pc' = "publish_line_await"
    /\ UNCHANGED <<publishIssues, publishChanges, issueIndex, lineComments, publishReturn>>
    /\ UnchangedExcept("publish")

\* Lines 54-55
LinePostSucceeds ==
    /\ pc = "publish_line_await"
    /\ postLog' = settled(postLog, "ok")
    /\ lineComments' = countSuccess(lineComments)
    /\ issueIndex' = issueIndex + 1
    /\ pc' = "publish_loop"
    /\ UNCHANGED <<publishIssues, publishChanges, publishReturn>>
    /\ UnchangedExcept("publish")

\* Lines 56-59: the catch of the loop body
LinePostFails ==
    /\ pc = "publish_line_await"
    /\ postLog' = settled(postLog, "failed")
    /\ lineComments' = countSkipped(lineComments)
    /\ issueIndex' = issueIndex + 1
    /\ pc' = "publish_loop"
    /\ UNCHANGED <<publishIssues, publishChanges, publishReturn>>
    /\ UnchangedExcept("publish")

\* return result
ReturnPublishResult ==
    /\ pc = "publish_loop"
    /\ issueIndex > Len(publishIssues)
    /\ publishReturn' = Some([generalPosted |-> TRUE, lineComments |-> lineComments])
    /\ pc' = "publish_returned"
    /\ UNCHANGED <<publishIssues, publishChanges, issueIndex, postLog, lineComments>>
    /\ UnchangedExcept("publish")

NextPublish ==
    \/ PostGeneralComment
    \/ GeneralPostFails
    \/ GeneralPostSucceeds
    \/ SkipUnmatchedIssue
    \/ PostLineComment
    \/ LinePostSucceeds
    \/ LinePostFails
    \/ ReturnPublishResult

SpecPublish == InitPublish /\ [][NextPublish]_vars

(***************************************************************************)
(* Properties of publishReview                                             *)
(***************************************************************************)
PublishReturned == pc = "publish_returned"

\* The positions in the log of the line-comment POSTs of issue k
LinePostsOf(k) ==
    {p \in 1..Len(postLog) : postLog[p].kind = "line" /\ postLog[p].issue = k}

\* C24: publishReview posts the general comment first and issues no
\* line-comment POST unless that POST succeeded; it then handles the parsed
\* issues in their order, with at most one line-comment attempt per issue, a
\* failed or unmatched issue never preventing the following ones, so that on
\* return success + skipped is the number of parsed issues.
C24_GeneralFirstThenEachIssueOnce ==
    /\ \A p \in 1..Len(postLog) : (postLog[p].kind = "general") <=> (p = 1)
    /\ Len(postLog) >= 2 => postLog[1].outcome = "ok"
    /\ \A p, q \in 2..Len(postLog) : p < q => postLog[p].issue < postLog[q].issue
    /\ \A p \in 2..Len(postLog) : postLog[p].issue \in 1..Len(publishIssues)
    /\ pc \in {"publish_loop", "publish_returned"} =>
        /\ lineComments.success + lineComments.skipped = issueIndex - 1
        /\ \A k \in 1..(issueIndex - 1) :
            Cardinality(LinePostsOf(k)) =
                IF findFileInfo(publishChanges, publishIssues[k].fileName, 1) = Null
                THEN 0 ELSE 1
    /\ PublishReturned =>
        /\ issueIndex = Len(publishIssues) + 1
        /\ publishReturn[1].lineComments.success
             + publishReturn[1].lineComments.skipped = Len(publishIssues)
        /\ publishReturn[1].lineComments.success =
             Cardinality({p \in 2..Len(postLog) : postLog[p].outcome = "ok"})

\* Three issues: the POST of the first failed, the second matches no change,
\* the third was posted
C24_Witness ==
    /\ PublishReturned
    /\ Len(publishIssues) = 3
    /\ Len(postLog) = 3
    /\ postLog[2] = [kind |-> "line", issue |-> 1, outcome |-> "failed"]
    /\ postLog[3] = [kind |-> "line", issue |-> 3, outcome |-> "ok"]
    /\ publishReturn[1].lineComments = [success |-> 1, skipped |-> 2]

====
